---------------------------- MODULE Spec2Model ----------------------------
(***************************************************************************)
(* Model of the IMDB-Clone bulk import pipeline and query layer.          *)
(*                                                                         *)
(*   Spec      the import orchestrators: TurboDataImporter.turbo_import    *)
(*             (started directly or through launch.import_data) and        *)
(*             IMDBClone.setup_database / create_schema / import_data,     *)
(*             at the granularity of one step per entity file.             *)
(*   SpecLoad  one table load at the granularity of one batch insert:      *)
(*             TurboDataImporter.parallel_insert / _insert_chunk (worker   *)
(*             pool) and the chunk loop of IMDBClone.import_data.          *)
(*   SpecCoerce one file read, coerced and loaded by either importer:      *)
(*             pd.read_csv, _optimize_dataframe / the coercion block of    *)
(*             import_data, then the insert.                               *)
(*   SpecQuery one request served from a store of movie rows: the search   *)
(*             and movie listing routes of optimized_app.py, app.py and    *)
(*             simple_app.py and the queries they execute.                 *)
(*   SpecCache the query cache of OptimizedDatabaseManager                 *)
(*             (optimized_database.py and app.py) under concurrent         *)
(*             execute_query and clear_cache calls.                        *)
(*   SpecInterrupt  Spec with runs that are interrupted during the load and*)
(*             started again.                                              *)
(*   SpecReset reset_db.py run as a script: the prompt and reset_database. *)
(*   SpecDetails the title lookup (movie_details) of the three web         *)
(*             applications on a store that changes between requests.      *)
(*   SpecPool  the worker pools of turbo_import: one ThreadPoolExecutor per*)
(*             entity, task by task.                                       *)
(*   SpecConn  the connection pool of OptimizedDatabaseManager and         *)
(*             execute_batch_insert on SQLite, statement by statement.     *)
(*   SpecPages the pagination arithmetic of the movies routes.             *)
(***************************************************************************)
EXTENDS Integers, Sequences, FiniteSets, TLC

VARIABLES
    \* ---- orchestrator (Spec) ----
    entry,          \* "launch" | "turbo" | "clone": the entry point that is run
    dataset_dir,    \* the dataset folder exists
    file,           \* per table: state of its source file
    db_tables,      \* "none" | "other" | "imdb": what sqlite_master holds
    count,          \* per table: number of rows in the store
    indexes,        \* set of index names present in the store
    foreign_keys,   \* PRAGMA foreign_keys of the importing connection
    pc,             \* "start" | "schema" | "load" | "finalize" | a Terminal position
    idx,            \* position in the import sequence (1..7, 8 = past the end)
    run,            \* number of the current run
    started,        \* history: tables whose load step was started, in order
    prev,           \* history: outcome of the previous run
    count0,         \* history: row counts when the current run began
    \* ---- one table load (SpecLoad) ----
    loader,         \* "turbo" | "clone"
    df,             \* the coerced rows offered to the loader
    cpu_count,      \* mp.cpu_count()
    memory_gb,      \* psutil total memory, in GB
    clone_chunk,    \* chunk_size of the import_data loop
    chunk_state,    \* per chunk: "queued" | "running" | "ok" | "rejected" | "db_error"
    attempts,       \* per chunk: number of bulk inserts executed for it
    commit_order,   \* history: chunk numbers in the order their insert ended
    imported_rows,  \* the counter of the import_data loop
    table,          \* rows of the loaded table
    lpc,            \* "insert" | "reported" | "returned" | "error"
    attempted,      \* rows the loader reports as offered
    persisted,      \* rows the loader reports as written
    \* ---- read / coerce / load of one file (SpecCoerce) ----
    cz_importer,    \* "turbo" | "clone"
    cz_table,       \* the table the file is loaded into
    raw,            \* the data lines of the file: sequence of raw records
    bad_line,       \* number of the line with too many fields, 0: none
    frame,          \* the DataFrame after read_csv / after coercion
    cz_pc,          \* "read" | "coerce" | "insert" | "done" | "error"
    stored,         \* rows of the table after the load
    \* ---- title search and movie listing (SpecQuery) ----
    q_kind,         \* "search" | "listing": the request the store is built for
    q_store,        \* the movie rows of the store
    q_request,      \* the request served
    q_result,       \* the rows returned, as positions in q_store
    q_pc,           \* "ready" | "served"
    \* ---- query cache (SpecCache) ----
    k_manager,      \* "optimized_database" | "app": the module of the manager
    query_cache,    \* the cache: entries in insertion order
    in_flight,      \* per thread: the call of execute_query it is executing
    last_hit,       \* the last lookup: the call and the entry it returned
    last_call,      \* the last call that ran its query: raised, what it returned
    \* ---- database reset (SpecReset) ----
    confirm,        \* the answer typed at the confirmation prompt
    file_exists,    \* per database file: the file exists
    remove_raises,  \* per database file: os.remove raises on it
    r_pc,           \* "prompt" | "loop" | "done" | "cancelled"
    r_idx,          \* position of the loop in db_files
    deleted_count,  \* the counter of reset_database
    remove_called,  \* history: files os.remove was called on
    \* ---- title lookup (SpecDetails) ----
    d_app,          \* "simple_app" | "optimized_app" | "app": the application
    d_titles,       \* the tconst values of the rows of title_basics
    d_cache,        \* the query cache: tconst -> cached result of the lookup
    d_response,     \* the last response of movie_details
    \* ---- the worker pools of turbo_import (SpecPool) ----
    t_cpu,          \* mp.cpu_count()
    t_idx,          \* position of the loop of turbo_import in import_sequence
    t_pc,           \* "loop" | "wait" | "exit" | "index" | "done" | "aborted"
    t_task,         \* per table and chunk number: state of the submitted insert
    t_next,         \* number of the future whose result is awaited
    \* ---- connection pool and batch insert (SpecConn) ----
    connection_pool, \* self.connection_pool: connection numbers, last is popped
    p_conn,         \* per connection: status, open transaction, uncommitted rows
    p_thread,       \* per thread: position in its call and its conn variable
    p_committed,    \* the rows the store holds
    p_calls,        \* per thread: number of execute_batch_insert calls begun
    p_op,           \* history: the last operation a thread made on a connection
    p_done,         \* history: the execute_batch_insert calls that have ended
    \* ---- pagination of the movie listings (SpecPages) ----
    m_request,      \* the request: route, page and per_page arguments, row count
    pagination      \* what the route computed: offset, total_pages, has_prev, has_next

ovars == <<entry, dataset_dir, file, db_tables, count, indexes, foreign_keys,
           pc, idx, run, started, prev, count0>>
lvars == <<loader, df, cpu_count, memory_gb, clone_chunk, chunk_state,
           attempts, commit_order, imported_rows, table, lpc, attempted,
           persisted>>
cvars == <<cz_importer, cz_table, raw, bad_line, frame, cz_pc, stored>>
qvars == <<q_kind, q_store, q_request, q_result, q_pc>>
kvars == <<k_manager, query_cache, in_flight, last_hit, last_call>>
rvars == <<confirm, file_exists, remove_raises, r_pc, r_idx, deleted_count,
           remove_called>>
dvars == <<d_app, d_titles, d_cache, d_response>>
tvars == <<t_cpu, t_idx, t_pc, t_task, t_next>>
pvars == <<connection_pool, p_conn, p_thread, p_committed, p_calls, p_op,
           p_done>>
mvars == <<m_request, pagination>>
xvars == <<rvars, dvars, tvars, pvars, mvars>>
bvars == <<ovars, lvars, cvars, qvars, kvars>>
not_rvars == <<bvars, dvars, tvars, pvars, mvars>>
not_dvars == <<bvars, rvars, tvars, pvars, mvars>>
not_tvars == <<bvars, rvars, dvars, pvars, mvars>>
not_pvars == <<bvars, rvars, dvars, tvars, mvars>>
not_mvars == <<bvars, rvars, dvars, tvars, pvars>>
vars  == <<ovars, lvars, cvars, qvars, kvars, xvars>>

NULL == "NULL"

Min(a, b) == IF a < b THEN a ELSE b

(***************************************************************************)
(* Bounds of the model.                                                    *)
(***************************************************************************)
FileRows    == 2    \* rows of every readable source file
MaxBadFiles == 2    \* at most this many of the seven files are not "ok"
MaxRuns     == 2    \* the entry point is run at most this many times
MaxRows     == 3    \* longest DataFrame offered to a table load
MaxKey      == 3    \* primary key values 1..MaxKey
MaxCpu      == 3    \* cpu_count ranges over 1..MaxCpu
MaxLines    == 3    \* longest source file of SpecCoerce, in data lines
MaxTitles   == 2    \* most movie rows of the store of SpecQuery
MaxPage     == 2    \* pages 1..MaxPage are requested
MaxThreads  == 1    \* threads calling execute_query at the same time (SpecCache)
cache_size  == 2    \* self.cache_size (1000 in optimized_database.py:31), scaled down
max_connections == 1 \* self.max_connections (10 in optimized_database.py:30), scaled down
MaxConns    == 3    \* connections created in one run of SpecConn
MaxCalls    == 2    \* execute_batch_insert calls of one thread
MaxTotal    == 101  \* most rows a listing counts (SpecPages)
MaxPoolThreads == 2 \* threads using the connection pool (SpecConn)

\* Numbers of the query layer
MinPopularVotes   == 1000  \* tr.numVotes >= 1000 of POPULAR_MOVIES
SearchLimit       == 20    \* LIMIT of the /search routes
SearchTitlesLimit == 50    \* LIMIT 50 of SEARCH_TITLES_QUERY
DefaultPerPage    == 24    \* per_page of movies when the request gives none
MaxPerPage        == 100   \* min(100, per_page) of movies
AppPerPage        == 20    \* per_page of movies of app.py
SimplePerPage     == 50    \* per_page of movies of simple_app.py
MinQueryLen       == 2     \* len(query) < 2 of search

(***************************************************************************)
(*                       THE IMPORT ORCHESTRATORS                          *)
(***************************************************************************)
Tables == {"title_basics", "name_basics", "title_ratings", "title_episode",
           "title_crew", "title_akas", "title_principals"}

\* turbo_importer.py:334-342
import_sequence ==
    <<"title_basics", "name_basics", "title_ratings", "title_crew",
      "title_episode", "title_akas", "title_principals">>

\* imdb_clone.py:141-149
files_to_import ==
    <<"title_basics", "name_basics", "title_ratings", "title_episode",
      "title_crew", "title_akas", "title_principals">>

\* launch.py:120-124
required_files == {"title_basics", "name_basics", "title_ratings"}

\* turbo_importer.py:268-281
index_queries ==
    {"idx_title_type", "idx_title_year", "idx_title_genre", "idx_title_primary",
     "idx_name_primary", "idx_ratings_score", "idx_ratings_votes",
     "idx_principals_title", "idx_principals_person", "idx_principals_category",
     "idx_episode_parent", "idx_akas_title"}

\* imdb_clone.py:121-130
clone_indexes ==
    {"idx_title_type", "idx_title_year", "idx_title_genre", "idx_title_adult",
     "idx_name_profession", "idx_principals_category", "idx_ratings_rating",
     "idx_ratings_votes", "idx_episode_parent"}

\* The table and the column of each index of the two lists above.
IndexOn(name) ==
    CASE name = "idx_title_type"          -> <<"title_basics", "titleType">>
      [] name = "idx_title_year"          -> <<"title_basics", "startYear">>
      [] name = "idx_title_genre"         -> <<"title_basics", "genres">>
      [] name = "idx_title_primary"       -> <<"title_basics", "primaryTitle">>
      [] name = "idx_title_adult"         -> <<"title_basics", "isAdult">>
      [] name = "idx_name_primary"        -> <<"name_basics", "primaryName">>
      [] name = "idx_name_profession"     -> <<"name_basics", "primaryProfession">>
      [] name = "idx_ratings_score"       -> <<"title_ratings", "averageRating">>
      [] name = "idx_ratings_rating"      -> <<"title_ratings", "averageRating">>
      [] name = "idx_ratings_votes"       -> <<"title_ratings", "numVotes">>
      [] name = "idx_principals_title"    -> <<"title_principals", "tconst">>
      [] name = "idx_principals_person"   -> <<"title_principals", "nconst">>
      [] name = "idx_principals_category" -> <<"title_principals", "category">>
      [] name = "idx_episode_parent"      -> <<"title_episode", "parentTconst">>
      [] name = "idx_akas_title"          -> <<"title_akas", "titleId">>

\* Tables whose branch of _optimize_dataframe indexes columns by name
\* (turbo_importer.py:185-207); title_crew and title_akas have no branch.
TurboCoerced == Tables \ {"title_crew", "title_akas"}

\* Tables declared with a PRIMARY KEY in IMDBClone.create_schema.
ClonePrimaryKey == Tables \ {"title_akas", "title_principals"}

\* Tables declared with a FOREIGN KEY in IMDBClone.create_schema; the tables of
\* create_optimized_schema declare none.
CloneForeignKey == Tables \ {"title_basics", "name_basics"}

\* States of a source file:
\*   "absent"     file_path.exists() is false
\*   "unreadable" gzip.open / pd.read_csv raises
\*   "badcols"    readable, but a column the coercion names is missing
\*   "badbatch"   readable and coerced, but every bulk insert fails
\*   "orphans"    readable and coerced, in every batch a row that references
\*                a title or a person the store does not hold
\*   "ok"         readable, coerced, every bulk insert succeeds
FileStates == {"absent", "unreadable", "badcols", "badbatch", "orphans", "ok"}

\* The bulk inserts of the file of table t succeed.  A batch with an orphan row
\* fails (FOREIGN KEY constraint failed) when the table declares a foreign key
\* and the inserting connection enforces it.  _insert_chunk inserts on a
\* connection of its own, on which enforcement was never switched on.
InsertSucceeds(imp, t, st, fk) ==
    \/ st = "ok"
    \/ /\ st = "orphans"
       /\ \/ imp = "turbo"
          \/ t \notin CloneForeignKey
          \/ ~fk

\* Faulty variant of connect_db_foreign_keys: PRAGMA foreign_keys = ON.
connect_db_enforcing == TRUE

\* PRAGMA foreign_keys = OFF of connect_db (imdb_clone.py:35)
connect_db_foreign_keys == FALSE

Importer == IF entry = "clone" THEN "clone" ELSE "turbo"

ZeroCount == [t \in Tables |-> 0]

OInit ==
    /\ entry \in {"launch", "turbo", "clone"}
    /\ dataset_dir \in BOOLEAN
    /\ file \in [Tables -> FileStates]
    /\ IF dataset_dir
         THEN Cardinality({t \in Tables : file[t] # "ok"}) <= MaxBadFiles
         ELSE \A t \in Tables : file[t] = "absent"
    /\ db_tables \in {"none", "other"}
    /\ count = ZeroCount
    /\ indexes = {}
    /\ foreign_keys = FALSE
    /\ pc = "start"
    /\ idx = 1
    /\ run = 1
    /\ started = <<>>
    /\ prev = "none"
    /\ count0 = ZeroCount

\* launch.import_data: the checks before the importer subprocess is started.
LaunchImportData ==
    /\ entry = "launch" /\ pc = "start"
    /\ pc' = IF ~dataset_dir THEN "refused"
             ELSE IF \E f \in required_files : file[f] = "absent" THEN "refused"
             ELSE "schema"
    /\ UNCHANGED <<entry, dataset_dir, file, db_tables, count, indexes,
                   foreign_keys, idx, run, started, prev, count0>>
    /\ UNCHANGED <<lvars, cvars, qvars, kvars, xvars>>

\* python turbo_importer.py: turbo_import starts with the schema.
TurboStart ==
    /\ entry = "turbo" /\ pc = "start"
    /\ pc' = "schema"
    /\ UNCHANGED <<entry, dataset_dir, file, db_tables, count, indexes,
                   foreign_keys, idx, run, started, prev, count0>>
    /\ UNCHANGED <<lvars, cvars, qvars, kvars, xvars>>

\* TurboDataImporter.create_optimized_schema: drops and recreates the seven
\* tables (their indexes go with them); raises when the store cannot be opened.
CreateOptimizedSchema ==
    /\ Importer = "turbo" /\ pc = "schema"
    /\ \E ok \in BOOLEAN :
         IF ok
           THEN /\ db_tables' = "imdb"
                /\ count' = ZeroCount
                /\ indexes' = {}
                /\ foreign_keys' = FALSE
                /\ pc' = "load"
                /\ idx' = 1
           ELSE /\ pc' = "schema_fatal"
                /\ UNCHANGED <<db_tables, count, indexes, foreign_keys, idx>>
    /\ UNCHANGED <<entry, dataset_dir, file, run, started, prev, count0>>
    /\ UNCHANGED <<lvars, cvars, qvars, kvars, xvars>>

\* One iteration of the loop of turbo_import (lines 348-361):
\* exists check, preprocess_file, parallel_insert.
TurboLoadEntity ==
    /\ Importer = "turbo" /\ pc = "load" /\ idx <= Len(import_sequence)
    /\ LET t == import_sequence[idx] IN
         /\ started' = IF file[t] = "absent" THEN started ELSE Append(started, t)
         /\ IF file[t] = "badcols" /\ t \in TurboCoerced
              THEN \* _optimize_dataframe raises outside every try block
                   /\ pc' = "aborted"
                   /\ UNCHANGED <<idx, count>>
              ELSE /\ pc' = pc
                   /\ idx' = idx + 1
                   /\ count' = IF InsertSucceeds("turbo", t, file[t], foreign_keys)
                                 THEN [count EXCEPT ![t] = @ + FileRows]
                                 ELSE count
    /\ UNCHANGED <<entry, dataset_dir, file, db_tables, indexes, foreign_keys,
                   run, prev, count0>>
    /\ UNCHANGED <<lvars, cvars, qvars, kvars, xvars>>

\* The sets of index statements that fail in one run: none, or any one.
IndexFailures == {{}} \cup {{q} : q \in index_queries}

\* TurboDataImporter.create_indexes_parallel: every statement runs on a
\* connection of its own, four at a time; a statement that raises (the store
\* is locked by another statement for longer than the timeout) is reported by
\* _create_index and its index is not created.
CreateIndexesParallel ==
    /\ Importer = "turbo" /\ pc = "load" /\ idx > Len(import_sequence)
    /\ \E failed \in IndexFailures :
         indexes' = indexes \cup (index_queries \ failed)
    /\ pc' = "finalize"
    /\ UNCHANGED <<entry, dataset_dir, file, db_tables, count, foreign_keys,
                   idx, run, started, prev, count0>>
    /\ UNCHANGED <<lvars, cvars, qvars, kvars, xvars>>

\* TurboDataImporter.finalize_database
FinalizeDatabase ==
    /\ Importer = "turbo" /\ pc = "finalize"
    /\ foreign_keys' = TRUE
    /\ pc' = "done"
    /\ UNCHANGED <<entry, dataset_dir, file, db_tables, count, indexes,
                   idx, run, started, prev, count0>>
    /\ UNCHANGED <<lvars, cvars, qvars, kvars, xvars>>

\* setup_database as it would be if an empty title_basics led to create_schema
SetupDatabaseRecreate ==
    /\ entry = "clone" /\ pc = "start"
    /\ \E ok \in BOOLEAN :
         IF ~ok
           THEN /\ pc' = "schema_fatal"
                /\ UNCHANGED <<foreign_keys, idx>>
           ELSE /\ foreign_keys' = connect_db_foreign_keys
                /\ idx' = 1
                /\ pc' = IF db_tables = "imdb" /\ count["title_basics"] > 0
                           THEN "done" ELSE "schema"
    /\ UNCHANGED <<entry, dataset_dir, file, db_tables, count, indexes,
                   run, started, prev, count0>>
    /\ UNCHANGED <<lvars, cvars, qvars, kvars, xvars>>

\* IMDBClone.setup_database: connect_db, then the decision on sqlite_master
\* and on COUNT(*) of title_basics (lines 227-249).
SetupDatabase ==
    /\ entry = "clone" /\ pc = "start"
    /\ \E ok \in BOOLEAN :
         IF ~ok
           THEN \* sqlite3.connect raises
                /\ pc' = "schema_fatal"
                /\ UNCHANGED <<foreign_keys, idx>>
           ELSE /\ foreign_keys' = connect_db_foreign_keys
                /\ idx' = 1
                /\ pc' = IF db_tables = "none" THEN "schema"
                         ELSE IF db_tables = "other" THEN "schema"
                         ELSE IF count["title_basics"] = 0 THEN "load"
                         ELSE "done"
    /\ UNCHANGED <<entry, dataset_dir, file, db_tables, count, indexes,
                   run, started, prev, count0>>
    /\ UNCHANGED <<lvars, cvars, qvars, kvars, xvars>>

\* IMDBClone.create_schema: drops and recreates the tables and creates the
\* indexes of the schema script.
CreateSchema ==
    /\ entry = "clone" /\ pc = "schema"
    /\ db_tables' = "imdb"
    /\ count' = ZeroCount
    /\ indexes' = clone_indexes
    /\ pc' = "load"
    /\ UNCHANGED <<entry, dataset_dir, file, foreign_keys, idx, run, started,
                   prev, count0>>
    /\ UNCHANGED <<lvars, cvars, qvars, kvars, xvars>>

\* One iteration of the loop of IMDBClone.import_data (lines 151-217): every
\* error of the iteration is caught by the except of line 214.  A table that
\* already holds the rows of its file rejects them again when it has a primary
\* key and takes them a second time when it has none.
ImportDataEntity ==
    /\ entry = "clone" /\ pc = "load" /\ idx <= Len(files_to_import)
    /\ LET t == files_to_import[idx] IN
         /\ started' = IF file[t] = "absent" THEN started ELSE Append(started, t)
         /\ count' = IF /\ InsertSucceeds("clone", t, file[t], foreign_keys)
                          /\ (count[t] = 0 \/ t \notin ClonePrimaryKey)
                       THEN [count EXCEPT ![t] = @ + FileRows]
                       ELSE count
    /\ idx' = idx + 1
    /\ UNCHANGED <<entry, dataset_dir, file, db_tables, indexes, foreign_keys,
                   pc, run, prev, count0>>
    /\ UNCHANGED <<lvars, cvars, qvars, kvars, xvars>>

\* The end of IMDBClone.import_data (lines 220-223).
ImportDataEnd ==
    /\ entry = "clone" /\ pc = "load" /\ idx > Len(files_to_import)
    /\ foreign_keys' = TRUE
    /\ pc' = "done"
    /\ UNCHANGED <<entry, dataset_dir, file, db_tables, count, indexes,
                   idx, run, started, prev, count0>>
    /\ UNCHANGED <<lvars, cvars, qvars, kvars, xvars>>

\* Positions in which the entry point has returned or raised:
\*   "done"         the import ran to its end (or was skipped as already loaded)
\*   "refused"      launch.import_data returned False before starting the importer
\*   "schema_fatal" the store could not be opened or the schema not created
\*   "aborted"      an exception left the importer after the schema was created
Terminal == {"done", "refused", "schema_fatal", "aborted"}

\* The same entry point is started again on the store the last run left.
Rerun ==
    /\ pc \in Terminal
    /\ run < MaxRuns
    /\ run' = run + 1
    /\ prev' = pc
    /\ count0' = count
    /\ pc' = "start"
    /\ idx' = 1
    /\ started' = <<>>
    /\ UNCHANGED <<entry, dataset_dir, file, db_tables, count, indexes,
                   foreign_keys>>
    /\ UNCHANGED <<lvars, cvars, qvars, kvars, xvars>>

\* The importer process is ended inside its load loop (KeyboardInterrupt is
\* no Exception and passes the except clauses of the loop; the process is
\* killed) and the same entry point is started again on the store as the
\* committed load steps left it.
InterruptAndRerun ==
    /\ pc = "load"
    /\ run < MaxRuns
    /\ run' = run + 1
    /\ prev' = "interrupted"
    /\ count0' = count
    /\ pc' = "start"
    /\ idx' = 1
    /\ started' = <<>>
    /\ UNCHANGED <<entry, dataset_dir, file, db_tables, count, indexes,
                   foreign_keys>>
    /\ UNCHANGED <<lvars, cvars, qvars, kvars, xvars>>

ONext ==
    \/ LaunchImportData
    \/ TurboStart
    \/ CreateOptimizedSchema
    \/ TurboLoadEntity
    \/ CreateIndexesParallel
    \/ FinalizeDatabase
    \/ SetupDatabase
    \/ CreateSchema
    \/ ImportDataEntity
    \/ ImportDataEnd
    \/ Rerun

(***************************************************************************)
(*                           ONE TABLE LOAD                                *)
(*                                                                         *)
(* The loaded table is title_episode, reduced to its constrained columns:  *)
(* tconst (PRIMARY KEY in both schemas) and parentTconst (NOT NULL in the  *)
(* schema of create_optimized_schema, unconstrained in create_schema).     *)
(* A sqlite3 write transaction is exclusive, so the bulk insert of one     *)
(* batch (to_sql: INSERT, then commit, or rollback when it raises) is one  *)
(* step.                                                                   *)
(***************************************************************************)
ParentIds == {"tt1"}

Row == [tconst : 1..MaxKey, parentTconst : {NULL} \cup ParentIds]

RECURSIVE SeqsUpTo(_, _)
SeqsUpTo(S, n) ==
    IF n = 0 THEN {<<>>}
    ELSE LET shorter == SeqsUpTo(S, n - 1)
         IN  shorter \cup {Append(q, x) : q \in {r \in shorter : Len(r) = n - 1}, x \in S}

Range(q) == {q[i] : i \in 1..Len(q)}

\* psutil.virtual_memory().total in GB: one value for every branch of
\* _calculate_optimal_chunk_size.
MemoryGB == {4, 8, 16}

\* TurboDataImporter._calculate_optimal_chunk_size
optimal_chunk_size(mem) ==
    IF mem >= 16 THEN 50000
    ELSE IF mem >= 8 THEN 25000
    ELSE 10000

\* turbo_importer.py:30
max_workers(cpus) == Min(cpus, 8)

\* imdb_clone.py:189.  The loop of import_data is modelled for the batch sizes
\* of CloneChunkSizes, of which the value of the code is one: with it alone a
\* DataFrame of at most MaxRows rows is always a single batch.
CloneChunkDefault == 10000
CloneChunkSizes == {1, 2, CloneChunkDefault}

\* chunk_size of the load (turbo_importer.py:220, imdb_clone.py:189)
chunk_size(ldr, d, cpus, mem, cc) ==
    IF ldr = "turbo"
      THEN Min(optimal_chunk_size(mem), (Len(d) \div max_workers(cpus)) + 1)
      ELSE cc

\* Number of values of range(0, n, cs)
NumChunks(n, cs) == (n + cs - 1) \div cs

\* Faulty variant of ChunkRows: the slice d[i : i + chunk_size - 1], one row short.
ChunkRowsShort(d, cs, i) == SubSeq(d, (i - 1) * cs + 1, Min(i * cs - 1, Len(d)))

\* The i-th batch (1-based) of d: d[(i-1)*cs : (i-1)*cs + cs]
ChunkRows(d, cs, i) == SubSeq(d, (i - 1) * cs + 1, Min(i * cs, Len(d)))

\* The table constraints the rows of one bulk insert must satisfy: a unique
\* primary key, and for the schema of the turbo importer a non-null
\* parentTconst.
BatchAccepted(tbl, rows, ldr) ==
    /\ \A i, j \in 1..Len(rows) : i # j => rows[i].tconst # rows[j].tconst
    /\ \A i \in 1..Len(rows) : \A r \in tbl : r.tconst # rows[i].tconst
    /\ ldr = "turbo" => \A i \in 1..Len(rows) : rows[i].parentTconst # NULL

\* Faulty variant of to_sql: the rows in front of the first offending row stay in the
\* table (no rollback of the failed bulk insert).
RECURSIVE to_sql_norollback(_, _, _)
to_sql_norollback(tbl, rows, ldr) ==
    IF rows = <<>> THEN tbl
    ELSE IF BatchAccepted(tbl, <<Head(rows)>>, ldr)
      THEN to_sql_norollback(tbl \cup {Head(rows)}, Tail(rows), ldr)
      ELSE tbl

\* Faulty variant of to_sql: if_exists='replace', the batch replaces the table.
to_sql_replace(tbl, rows, ldr) == Range(rows)

\* chunk.to_sql(table_name, conn, if_exists='append'): the table after the
\* bulk insert; pandas rolls the transaction back when the insert raises.
to_sql(tbl, rows, ldr) ==
    IF BatchAccepted(tbl, rows, ldr) THEN tbl \cup Range(rows) ELSE tbl

CS == chunk_size(loader, df, cpu_count, memory_gb, clone_chunk)
NC == NumChunks(Len(df), CS)
Finished == {"ok", "rejected", "db_error"}

LInit ==
    /\ loader \in {"turbo", "clone"}
    /\ df \in SeqsUpTo(Row, MaxRows)
    /\ cpu_count \in (IF loader = "turbo" THEN 1..MaxCpu ELSE {1})
    /\ memory_gb \in (IF loader = "turbo" THEN MemoryGB ELSE {4})
    /\ clone_chunk \in (IF loader = "clone" THEN CloneChunkSizes ELSE {CloneChunkDefault})
    /\ chunk_state = [i \in 1..NumChunks(Len(df),
                            chunk_size(loader, df, cpu_count, memory_gb, clone_chunk))
                        |-> "queued"]
    /\ attempts = [i \in DOMAIN chunk_state |-> 0]
    /\ commit_order = <<>>
    /\ imported_rows = 0
    /\ table = {}
    /\ lpc = "insert"
    /\ attempted = 0
    /\ persisted = 0

\* A worker thread of the ThreadPoolExecutor takes the oldest queued task.
StartChunk(i) ==
    /\ loader = "turbo" /\ lpc = "insert" /\ df # <<>>
    /\ chunk_state[i] = "queued"
    /\ \A j \in 1..(i - 1) : chunk_state[j] # "queued"
    /\ Cardinality({j \in 1..NC : chunk_state[j] = "running"}) < max_workers(cpu_count)
    /\ chunk_state' = [chunk_state EXCEPT ![i] = "running"]
    /\ UNCHANGED <<loader, df, cpu_count, memory_gb, clone_chunk, attempts,
                   commit_order, imported_rows, table, lpc, attempted, persisted>>
    /\ UNCHANGED <<ovars, cvars, qvars, kvars, xvars>>

\* TurboDataImporter._insert_chunk: one to_sql on a connection of its own;
\* every exception is caught and printed.
InsertChunk(i) ==
    /\ loader = "turbo" /\ lpc = "insert"
    /\ chunk_state[i] = "running"
    /\ attempts' = [attempts EXCEPT ![i] = @ + 1]
    /\ commit_order' = Append(commit_order, i)
    /\ \E db_error \in BOOLEAN :
         IF db_error
           THEN \* database is locked, too many SQL variables, ...
                /\ chunk_state' = [chunk_state EXCEPT ![i] = "db_error"]
                /\ table' = table
           ELSE /\ table' = to_sql(table, ChunkRows(df, CS, i), loader)
                /\ chunk_state' = [chunk_state EXCEPT ![i] =
                       IF BatchAccepted(table, ChunkRows(df, CS, i), loader)
                         THEN "ok" ELSE "rejected"]
    /\ UNCHANGED <<loader, df, cpu_count, memory_gb, clone_chunk,
                   imported_rows, lpc, attempted, persisted>>
    /\ UNCHANGED <<ovars, cvars, qvars, kvars, xvars>>

\* The end of parallel_insert: every future has a result; the summary line
\* "Inserted {len(df)} rows" is the only report.  An empty DataFrame returns
\* at line 214 without a report.
ParallelInsertEnd ==
    /\ loader = "turbo" /\ lpc = "insert"
    /\ \A i \in 1..NC : chunk_state[i] \in Finished
    /\ IF df = <<>>
         THEN /\ lpc' = "returned"
              /\ UNCHANGED <<attempted, persisted>>
         ELSE /\ lpc' = "reported"
              /\ attempted' = Len(df)
              /\ persisted' = Len(df)
    /\ UNCHANGED <<loader, df, cpu_count, memory_gb, clone_chunk, chunk_state,
                   attempts, commit_order, imported_rows, table>>
    /\ UNCHANGED <<ovars, cvars, qvars, kvars, xvars>>

\* One iteration of the chunk loop of IMDBClone.import_data (lines 193-205).
ImportChunk ==
    /\ loader = "clone" /\ lpc = "insert"
    /\ \E i \in 1..NC :
         /\ chunk_state[i] = "queued"
         /\ \A j \in 1..(i - 1) : chunk_state[j] # "queued"
         /\ attempts' = [attempts EXCEPT ![i] = @ + 1]
         /\ commit_order' = Append(commit_order, i)
         /\ \E db_error \in BOOLEAN :
              IF db_error
                THEN /\ chunk_state' = [chunk_state EXCEPT ![i] = "db_error"]
                     /\ UNCHANGED <<table, imported_rows>>
                ELSE /\ table' = to_sql(table, ChunkRows(df, CS, i), loader)
                     /\ IF BatchAccepted(table, ChunkRows(df, CS, i), loader)
                          THEN /\ chunk_state' = [chunk_state EXCEPT ![i] = "ok"]
                               /\ imported_rows' = imported_rows + Len(ChunkRows(df, CS, i))
                          ELSE /\ chunk_state' = [chunk_state EXCEPT ![i] = "rejected"]
                               /\ imported_rows' = imported_rows
    /\ UNCHANGED <<loader, df, cpu_count, memory_gb, clone_chunk, lpc,
                   attempted, persisted>>
    /\ UNCHANGED <<ovars, cvars, qvars, kvars, xvars>>

\* The report after the loop (imdb_clone.py:207-212).  With no rows the
\* success rate divides by zero and the except of line 214 prints the error.
ImportReport ==
    /\ loader = "clone" /\ lpc = "insert"
    /\ \A i \in 1..NC : chunk_state[i] \in Finished
    /\ IF Len(df) = 0
         THEN /\ lpc' = "error"
              /\ UNCHANGED <<attempted, persisted>>
         ELSE /\ lpc' = "reported"
              /\ attempted' = Len(df)
              /\ persisted' = imported_rows
    /\ UNCHANGED <<loader, df, cpu_count, memory_gb, clone_chunk, chunk_state,
                   attempts, commit_order, imported_rows, table>>
    /\ UNCHANGED <<ovars, cvars, qvars, kvars, xvars>>

LNext ==
    \/ \E i \in 1..NC : StartChunk(i)
    \/ \E i \in 1..NC : InsertChunk(i)
    \/ ParallelInsertEnd
    \/ ImportChunk
    \/ ImportReport

(***************************************************************************)
(*                  READ, COERCE AND LOAD ONE FILE                         *)
(*                                                                         *)
(* A field of a source line is a text: a sequence of characters.  A cell   *)
(* of a DataFrame is NaN, a string or a number; numbers are kept in        *)
(* tenths (7.5 is 75, 1994 is 19940) so that the fractional ratings of the *)
(* file have a value.  The files are title.basics (columns tconst,         *)
(* isAdult, startYear), name.basics (birthYear, deathYear), title.ratings  *)
(* (averageRating, numVotes) and title.episode (seasonNumber,              *)
(* episodeNumber); the key of line i is i, so no line repeats a key.       *)
(***************************************************************************)
T_empty == <<>>
T_null  == <<"\\", "N">>
T_NA    == <<"N", "/", "A">>
T_abc   == <<"a", "b", "c">>
T_0     == <<"0">>
T_1     == <<"1">>
T_1994  == <<"1", "9", "9", "4">>
T_75    == <<"7", ".", "5">>
T_100   == <<"1", "0", "0">>

IsAdultTexts   == {T_0, T_1, T_abc, T_null}
StartYearTexts == {T_1994, T_empty, T_null, T_abc}
RatingTexts    == {T_75, T_NA, T_abc, T_null}
VotesTexts     == {T_100, T_abc, T_empty}
BirthYearTexts == {T_1994, T_null, T_abc}
DeathYearTexts == {T_1994, T_empty, T_0}
SeasonTexts    == {T_1, T_null, T_abc}
EpisodeTexts   == {T_100, T_NA, T_75}

\* na_values=['\\N', ''] of both read_csv calls
na_values == {T_null, T_empty}
\* keep_default_na=True adds the default markers of pandas; of these the
\* texts above contain "N/A".
default_na == {T_NA}

DigitChars == {"0", "1", "2", "3", "4", "5", "6", "7", "8", "9"}

DigitVal(c) ==
    CASE c = "0" -> 0 [] c = "1" -> 1 [] c = "2" -> 2 [] c = "3" -> 3
      [] c = "4" -> 4 [] c = "5" -> 5 [] c = "6" -> 6 [] c = "7" -> 7
      [] c = "8" -> 8 [] c = "9" -> 9

IsDigits(s) == Len(s) > 0 /\ \A i \in 1..Len(s) : s[i] \in DigitChars

RECURSIVE IntOf(_)
IntOf(s) ==
    IF s = <<>> THEN 0
    ELSE 10 * IntOf(SubSeq(s, 1, Len(s) - 1)) + DigitVal(s[Len(s)])

\* Position of the decimal point of s, 0 when it has none
DotAt(s) == IF \E k \in 1..Len(s) : s[k] = "."
              THEN CHOOSE k \in 1..Len(s) : s[k] = "."
              ELSE 0

\* s is a decimal number: digits, or digits "." one digit
IsNumber(s) ==
    \/ IsDigits(s)
    \/ /\ DotAt(s) > 1 /\ DotAt(s) = Len(s) - 1
       /\ IsDigits(SubSeq(s, 1, DotAt(s) - 1))
       /\ s[Len(s)] \in DigitChars

\* The value of a decimal number, in tenths
TenthsOf(s) ==
    IF IsDigits(s) THEN 10 * IntOf(s)
    ELSE 10 * IntOf(SubSeq(s, 1, DotAt(s) - 1)) + DigitVal(s[Len(s)])

NaN    == [kind |-> "nan", text |-> <<>>, tenths |-> 0]
Str(s) == [kind |-> "str", text |-> s, tenths |-> 0]
Num(n) == [kind |-> "num", text |-> <<>>, tenths |-> n]

IsNA(s) == s \in na_values \cup default_na

\* pd.read_csv(..., dtype=str) of preprocess_file: every cell is a string or NaN.
ReadStr(s) == IF IsNA(s) THEN NaN ELSE Str(s)

\* pd.read_csv without dtype (imdb_clone.py:158): a column whose non-missing
\* fields are all numbers is numeric, any other column keeps its strings.
ReadInferred(s, column) ==
    IF IsNA(s) THEN NaN
    ELSE IF \A t \in column : IsNA(t) \/ IsNumber(t) THEN Num(TenthsOf(s))
    ELSE Str(s)

\* Faulty variant of to_numeric: a text that is no number becomes 0.
to_numeric_zero(c) ==
    IF c.kind = "str"
      THEN (IF IsNumber(c.text) THEN Num(TenthsOf(c.text)) ELSE Num(0))
      ELSE c

\* pd.to_numeric(cell, errors='coerce')
to_numeric(c) ==
    IF c.kind = "str"
      THEN (IF IsNumber(c.text) THEN Num(TenthsOf(c.text)) ELSE NaN)
      ELSE c

\* .fillna(0)
fillna0(c) == IF c.kind = "nan" THEN Num(0) ELSE c

\* .astype(int) raises ValueError on a cell int() does not accept
AstypeIntRaises(c) ==
    \/ c.kind = "nan"
    \/ c.kind = "str" /\ ~IsDigits(c.text)

\* .astype(int) of one cell that int() accepts
astype_int(c) ==
    IF c.kind = "str" THEN Num(10 * IntOf(c.text))
    ELSE Num((c.tenths \div 10) * 10)

CoerceTables == {"title_basics", "name_basics", "title_ratings", "title_episode"}

Cols(tbl) ==
    CASE tbl = "title_basics"  -> <<"isAdult", "startYear">>
      [] tbl = "name_basics"   -> <<"birthYear", "deathYear">>
      [] tbl = "title_ratings" -> <<"averageRating", "numVotes">>
      [] tbl = "title_episode" -> <<"seasonNumber", "episodeNumber">>

RawLines(tbl) ==
    CASE tbl = "title_basics"  -> [isAdult : IsAdultTexts, startYear : StartYearTexts]
      [] tbl = "name_basics"   -> [birthYear : BirthYearTexts, deathYear : DeathYearTexts]
      [] tbl = "title_ratings" -> [averageRating : RatingTexts, numVotes : VotesTexts]
      [] tbl = "title_episode" -> [seasonNumber : SeasonTexts, episodeNumber : EpisodeTexts]

Column(lines, col) == {lines[i][col] : i \in 1..Len(lines)}

\* The DataFrame read_csv returns for the lines of the file; tconst of line i is i.
read_csv(imp, tbl, lines) ==
    [i \in 1..Len(lines) |->
        [c \in {"tconst", Cols(tbl)[1], Cols(tbl)[2]} |->
            IF c = "tconst" THEN Num(10 * i)
            ELSE IF imp = "turbo" THEN ReadStr(lines[i][c])
            ELSE ReadInferred(lines[i][c], Column(lines, c))]]

\* The coercion raises: only .astype(int) of import_data line 166 can, on the
\* texts of the model.
CoercionRaises(imp, tbl, fr) ==
    /\ imp = "clone" /\ tbl = "title_basics"
    /\ \E i \in 1..Len(fr) : AstypeIntRaises(fillna0(fr[i].isAdult))

\* df.dropna(subset=['averageRating', 'numVotes'])
dropna(fr) ==
    LET Keep(r) == r.averageRating.kind # "nan" /\ r.numVotes.kind # "nan"
    IN  SelectSeq(fr, Keep)

\* TurboDataImporter._optimize_dataframe (lines 185-200) and the coercion
\* block of IMDBClone.import_data (lines 164-181), for a frame on which the
\* coercion does not raise.
Coerce(imp, tbl, fr) ==
    CASE tbl = "title_basics" ->
           [i \in 1..Len(fr) |->
              [fr[i] EXCEPT
                 !.isAdult = IF imp = "turbo"
                               THEN astype_int(fillna0(to_numeric(@)))
                               ELSE astype_int(fillna0(@)),
                 !.startYear = to_numeric(@)]]
      [] tbl = "name_basics" ->
           [i \in 1..Len(fr) |->
              [fr[i] EXCEPT !.birthYear = to_numeric(@),
                            !.deathYear = to_numeric(@)]]
      [] tbl = "title_ratings" ->
           LET numeric == [i \in 1..Len(fr) |->
                             [fr[i] EXCEPT !.averageRating = to_numeric(@),
                                           !.numVotes = to_numeric(@)]]
           IN  IF imp = "turbo" THEN dropna(numeric) ELSE numeric
      [] tbl = "title_episode" ->
           [i \in 1..Len(fr) |->
              [fr[i] EXCEPT !.seasonNumber = to_numeric(@),
                            !.episodeNumber = to_numeric(@)]]

\* The bulk insert of the coerced frame is accepted: title_ratings of
\* create_optimized_schema declares averageRating and numVotes NOT NULL; the
\* keys are distinct and create_schema declares no NOT NULL column.
FrameAccepted(imp, tbl, fr) ==
    (imp = "turbo" /\ tbl = "title_ratings") =>
        \A i \in 1..Len(fr) : fr[i].averageRating.kind # "nan" /\ fr[i].numVotes.kind # "nan"

CInit ==
    /\ cz_importer \in {"turbo", "clone"}
    /\ cz_table \in CoerceTables
    /\ raw \in SeqsUpTo(RawLines(cz_table), MaxLines)
    /\ bad_line \in 0..Len(raw)
    /\ frame = <<>>
    /\ cz_pc = "read"
    /\ stored = {}

\* gzip.open + pd.read_csv (turbo_importer.py:150-166, imdb_clone.py:157-158).
\* A file with no data line gives read_csv of preprocess_file no chunk, and
\* pd.concat raises: the except of line 168 returns an empty DataFrame.
\* A line with more fields than the header makes the parser raise ParserError
\* (on_bad_lines is left at 'error'): preprocess_file returns an empty
\* DataFrame from its except, import_data gives the file up in the except of
\* line 214.
ReadFile ==
    /\ cz_pc = "read"
    /\ IF bad_line # 0
         THEN /\ frame' = <<>>
              /\ cz_pc' = IF cz_importer = "turbo" THEN "done" ELSE "error"
         ELSE /\ frame' = read_csv(cz_importer, cz_table, raw)
              /\ cz_pc' = IF cz_importer = "turbo" /\ raw = <<>> THEN "done" ELSE "coerce"
    /\ UNCHANGED <<cz_importer, cz_table, raw, bad_line, stored>>
    /\ UNCHANGED <<ovars, lvars, qvars, kvars, xvars>>

\* The coercion of the frame; an exception raised in import_data is caught by
\* the except of line 214 and the file is given up.
CoerceFrame ==
    /\ cz_pc = "coerce"
    /\ IF CoercionRaises(cz_importer, cz_table, frame)
         THEN /\ cz_pc' = "error"
              /\ frame' = frame
         ELSE /\ cz_pc' = "insert"
              /\ frame' = Coerce(cz_importer, cz_table, frame)
    /\ UNCHANGED <<cz_importer, cz_table, raw, bad_line, stored>>
    /\ UNCHANGED <<ovars, lvars, qvars, kvars, xvars>>

\* The bulk insert of the coerced frame, which is one batch.
InsertFrame ==
    /\ cz_pc = "insert"
    /\ stored' = IF FrameAccepted(cz_importer, cz_table, frame)
                   THEN Range(frame) ELSE {}
    /\ cz_pc' = "done"
    /\ UNCHANGED <<cz_importer, cz_table, raw, bad_line, frame>>
    /\ UNCHANGED <<ovars, lvars, qvars, kvars, xvars>>

CNext ==
    \/ ReadFile
    \/ CoerceFrame
    \/ InsertFrame

(***************************************************************************)
(*                   TITLE SEARCH AND MOVIE LISTING                        *)
(*                                                                         *)
(* The store is a sequence of movie rows (title_basics joined with         *)
(* title_ratings); a row is named by its position.  Cells are NaN (SQL     *)
(* NULL), Str or Num as above.  Titles and search terms are lower-case     *)
(* texts without the LIKE wildcards % and _.  A request is served from     *)
(* the store; its result is the sequence of row numbers in the order the   *)
(* query returns them, any order the ORDER BY clause leaves open being     *)
(* possible.                                                               *)
(***************************************************************************)
N_ab  == <<"a", "b">>
N_abc == <<"a", "b", "c">>
N_cab == <<"c", "a", "b">>
N_c   == <<"c">>
G_d   == <<"d">>

SearchTerms == {<<>>, N_c, N_ab}

SearchRows ==
    [primaryTitle  : {N_ab, N_abc, N_cab, N_c},
     originalTitle : {N_ab, N_c},
     numVotes      : {NaN, Num(10), Num(20)}]

\* The row of title_ratings joined to a movie: none, or a rating and its votes.
Ratings ==
    {[averageRating |-> NaN, numVotes |-> NaN],
     [averageRating |-> Num(70), numVotes |-> Num(10 * MinPopularVotes)],
     [averageRating |-> Num(90), numVotes |-> Num(10 * MinPopularVotes)],
     [averageRating |-> Num(90), numVotes |-> Num(10 * (MinPopularVotes - 1))]}

ListingRows ==
    [startYear : {NaN, Num(19900), Num(20000)},
     genres    : {NaN, Str(G_d)},
     rating    : Ratings]

\* t LIKE term || '%'
StartsWith(t, term) ==
    Len(term) <= Len(t) /\ SubSeq(t, 1, Len(term)) = term

\* t LIKE '%' || term || '%'
Contains(t, term) ==
    \E k \in 0..(Len(t) - Len(term)) : SubSeq(t, k + 1, k + Len(term)) = term

\* The sort key of a nullable number in ORDER BY ... DESC: NULL comes after
\* every value (SQLite orders NULL lowest; app.py writes NULLS LAST).
DescKey(c) == IF c.kind = "nan" THEN 0 - 1 ELSE c.tenths

\* COALESCE(c, 0)
Coalesce0(c) == IF c.kind = "nan" THEN 0 ELSE c.tenths

Perms(S) ==
    {p \in [1..Cardinality(S) -> S] :
        \A i, j \in 1..Cardinality(S) : i # j => p[i] # p[j]}

\* The orders in which a query returns the rows S under an ORDER BY clause by
\* which row a comes strictly before row b when <<a, b>> is in before.
Orderings(S, before) ==
    {p \in Perms(S) :
        \A i, j \in 1..Cardinality(S) : i < j => <<p[j], p[i]>> \notin before}

\* LIMIT limit OFFSET offset
LimitOffset(p, limit, offset) ==
    SubSeq(p, offset + 1, Min(Len(p), offset + limit))

\* relevance_score of MOVIE_SEARCH
relevance_score(row, term) ==
    IF row.primaryTitle = term THEN 100
    ELSE IF StartsWith(row.primaryTitle, term) THEN 90
    ELSE IF Contains(row.primaryTitle, term) THEN 80
    ELSE 70

\* OptimizedQueries.MOVIE_SEARCH with the parameters of optimized_app.search
MOVIE_SEARCH(store, term, limit) ==
    LET match == {i \in 1..Len(store) :
                     \/ Contains(store[i].primaryTitle, term)
                     \/ Contains(store[i].originalTitle, term)}
        Before == {ab \in match \X match :
                    LET a == ab[1]
                        b == ab[2]
                    IN  \/ relevance_score(store[a], term) > relevance_score(store[b], term)
                        \/ /\ relevance_score(store[a], term) = relevance_score(store[b], term)
                           /\ DescKey(store[a].numVotes) > DescKey(store[b].numVotes)}
    IN  {LimitOffset(p, limit, 0) : p \in Orderings(match, Before)}

\* The CASE of the ORDER BY of SEARCH_TITLES_QUERY
search_titles_case(row, term) ==
    IF row.primaryTitle = term THEN 1
    ELSE IF StartsWith(row.primaryTitle, term) THEN 2
    ELSE 3

\* SEARCH_TITLES_QUERY of queries.py, its four patterns bound to
\* '%term%', '%term%', 'term' and 'term%'.
SEARCH_TITLES_QUERY(store, term) ==
    LET match == {i \in 1..Len(store) :
                     \/ Contains(store[i].primaryTitle, term)
                     \/ Contains(store[i].originalTitle, term)}
        Before == {ab \in match \X match :
                    LET a == ab[1]
                        b == ab[2]
                    IN  \/ search_titles_case(store[a], term) < search_titles_case(store[b], term)
                        \/ /\ search_titles_case(store[a], term) = search_titles_case(store[b], term)
                           /\ DescKey(store[a].numVotes) > DescKey(store[b].numVotes)}
    IN  {LimitOffset(p, SearchTitlesLimit, 0) : p \in Orderings(match, Before)}

\* The movie query of the /search route of app.py; the second sort key,
\* averageRating, orders rows with equal votes only.
AppSearchQuery(store, term, limit, offset) ==
    LET match == {i \in 1..Len(store) :
                     \/ Contains(store[i].primaryTitle, term)
                     \/ Contains(store[i].originalTitle, term)}
        Before == {ab \in match \X match :
                    LET a == ab[1]
                        b == ab[2]
                    IN  DescKey(store[a].numVotes) > DescKey(store[b].numVotes)}
    IN  {LimitOffset(p, limit, offset) : p \in Orderings(match, Before)}

\* The title query of the /search route of simple_app.py
SimpleSearchQuery(store, term) ==
    LET match == {i \in 1..Len(store) : Contains(store[i].primaryTitle, term)}
        Before == {ab \in match \X match :
                    LET a == ab[1]
                        b == ab[2]
                    IN  Coalesce0(store[a].numVotes) > Coalesce0(store[b].numVotes)}
    IN  {LimitOffset(p, SearchLimit, 0) : p \in Orderings(match, Before)}

\* (? IS NULL OR column >= ?)
AtLeast(cell, filter) ==
    filter.kind = "nan" \/ (cell.kind = "num" /\ cell.tenths >= filter.tenths)

\* (? IS NULL OR column <= ?)
AtMost(cell, filter) ==
    filter.kind = "nan" \/ (cell.kind = "num" /\ cell.tenths <= filter.tenths)

\* (? IS NULL OR genres LIKE '%' || ? || '%')
GenreLike(cell, filter) ==
    filter.kind = "nan" \/ (cell.kind = "str" /\ Contains(cell.text, filter.text))

\* OptimizedQueries.POPULAR_MOVIES
POPULAR_MOVIES(store, year_min, year_max, genre, limit, offset) ==
    LET match == {i \in 1..Len(store) :
                     /\ store[i].rating.numVotes.kind = "num"
                     /\ store[i].rating.numVotes.tenths >= 10 * MinPopularVotes
                     /\ AtLeast(store[i].startYear, year_min)
                     /\ AtMost(store[i].startYear, year_max)
                     /\ GenreLike(store[i].genres, genre)}
        Before == {ab \in match \X match :
                    LET a == ab[1]
                        b == ab[2]
                    IN  \/ store[a].rating.averageRating.tenths > store[b].rating.averageRating.tenths
                        \/ /\ store[a].rating.averageRating.tenths = store[b].rating.averageRating.tenths
                           /\ store[a].rating.numVotes.tenths > store[b].rating.numVotes.tenths}
    IN  {LimitOffset(p, limit, offset) : p \in Orderings(match, Before)}

\* MOVIE_LISTING_QUERY of queries.py, no isAdult filter supplied
MOVIE_LISTING_QUERY(store, year_min, year_max, genre, min_rating, limit, offset) ==
    LET match == {i \in 1..Len(store) :
                     /\ AtLeast(store[i].startYear, year_min)
                     /\ AtMost(store[i].startYear, year_max)
                     /\ GenreLike(store[i].genres, genre)
                     /\ AtLeast(store[i].rating.averageRating, min_rating)}
        Before == {ab \in match \X match :
                    LET a == ab[1]
                        b == ab[2]
                    IN  \/ DescKey(store[a].rating.numVotes) > DescKey(store[b].rating.numVotes)
                        \/ /\ DescKey(store[a].rating.numVotes) = DescKey(store[b].rating.numVotes)
                           /\ DescKey(store[a].rating.averageRating)
                                > DescKey(store[b].rating.averageRating)}
    IN  {LimitOffset(p, limit, offset) : p \in Orderings(match, Before)}

\* A request: the route, the search term, the filters as the request gives
\* them (NaN: not given), the page and the page size.
NoRequest ==
    [route |-> "none", term |-> <<>>, year_min |-> NaN, year_max |-> NaN,
     genre |-> NaN, min_rating |-> NaN, page |-> 1, per_page |-> DefaultPerPage]

YearMinFilters   == {NaN, Num(20000)}
YearMaxFilters   == {NaN, Num(19900)}
GenreFilters     == {NaN, Str(G_d)}
MinRatingFilters == {NaN, Num(80)}
Pages            == 1..MaxPage
PerPages         == {1, DefaultPerPage}

QInit ==
    /\ q_kind \in {"search", "listing"}
    /\ q_store \in SeqsUpTo(IF q_kind = "search" THEN SearchRows ELSE ListingRows,
                            MaxTitles)
    /\ q_request = NoRequest
    /\ q_result = <<>>
    /\ q_pc = "ready"

\* search of optimized_app.py: an empty query and a query of one character
\* are answered without a result.
OptimizedAppSearch ==
    /\ q_kind = "search" /\ q_pc = "ready"
    /\ \E term \in SearchTerms :
         /\ q_request' = [NoRequest EXCEPT !.route = "optimized_app", !.term = term]
         /\ IF Len(term) < MinQueryLen
              THEN q_result' = <<>>
              ELSE q_result' \in MOVIE_SEARCH(q_store, term, SearchLimit)
    /\ q_pc' = "served"
    /\ UNCHANGED <<q_kind, q_store>>
    /\ UNCHANGED <<ovars, lvars, cvars, kvars, xvars>>

\* search of app.py, search type movies
AppSearch ==
    /\ q_kind = "search" /\ q_pc = "ready"
    /\ \E term \in SearchTerms, page \in Pages :
         /\ q_request' = [NoRequest EXCEPT !.route = "app", !.term = term,
                                           !.page = page, !.per_page = SearchLimit]
         /\ IF term = <<>>
              THEN q_result' = <<>>
              ELSE q_result' \in AppSearchQuery(q_store, term, SearchLimit,
                                                (page - 1) * SearchLimit)
    /\ q_pc' = "served"
    /\ UNCHANGED <<q_kind, q_store>>
    /\ UNCHANGED <<ovars, lvars, cvars, kvars, xvars>>

\* search of simple_app.py
SimpleAppSearch ==
    /\ q_kind = "search" /\ q_pc = "ready"
    /\ \E term \in SearchTerms :
         /\ q_request' = [NoRequest EXCEPT !.route = "simple_app", !.term = term]
         /\ IF term = <<>>
              THEN q_result' = <<>>
              ELSE q_result' \in SimpleSearchQuery(q_store, term)
    /\ q_pc' = "served"
    /\ UNCHANGED <<q_kind, q_store>>
    /\ UNCHANGED <<ovars, lvars, cvars, kvars, xvars>>

\* SEARCH_TITLES_QUERY executed for a term
SearchTitles ==
    /\ q_kind = "search" /\ q_pc = "ready"
    /\ \E term \in SearchTerms \ {<<>>} :
         /\ q_request' = [NoRequest EXCEPT !.route = "queries", !.term = term]
         /\ q_result' \in SEARCH_TITLES_QUERY(q_store, term)
    /\ q_pc' = "served"
    /\ UNCHANGED <<q_kind, q_store>>
    /\ UNCHANGED <<ovars, lvars, cvars, kvars, xvars>>

\* movies of optimized_app.py: genre is '' when the request has none,
\* min_rating is read and handed to the template only.
OptimizedAppMovies ==
    /\ q_kind = "listing" /\ q_pc = "ready"
    /\ \E year_min \in YearMinFilters, year_max \in YearMaxFilters,
          genre \in GenreFilters, min_rating \in MinRatingFilters,
          page \in Pages, per_page \in PerPages :
         /\ q_request' = [NoRequest EXCEPT
                            !.route = "optimized_app", !.year_min = year_min,
                            !.year_max = year_max, !.genre = genre,
                            !.min_rating = min_rating, !.page = page,
                            !.per_page = Min(MaxPerPage, per_page)]
         /\ q_result' \in POPULAR_MOVIES(q_store, year_min, year_max,
                             IF genre.kind = "nan" THEN Str(<<>>) ELSE genre,
                             Min(MaxPerPage, per_page),
                             (page - 1) * Min(MaxPerPage, per_page))
    /\ q_pc' = "served"
    /\ UNCHANGED <<q_kind, q_store>>
    /\ UNCHANGED <<ovars, lvars, cvars, kvars, xvars>>

\* MOVIE_LISTING_QUERY executed for a request, a filter the request does not
\* give bound to NULL.
MovieListing ==
    /\ q_kind = "listing" /\ q_pc = "ready"
    /\ \E year_min \in YearMinFilters, year_max \in YearMaxFilters,
          genre \in GenreFilters, min_rating \in MinRatingFilters,
          page \in Pages, per_page \in PerPages :
         /\ q_request' = [NoRequest EXCEPT
                            !.route = "queries", !.year_min = year_min,
                            !.year_max = year_max, !.genre = genre,
                            !.min_rating = min_rating, !.page = page,
                            !.per_page = per_page]
         /\ q_result' \in MOVIE_LISTING_QUERY(q_store, year_min, year_max, genre,
                             min_rating, per_page, (page - 1) * per_page)
    /\ q_pc' = "served"
    /\ UNCHANGED <<q_kind, q_store>>
    /\ UNCHANGED <<ovars, lvars, cvars, kvars, xvars>>

QNext ==
    \/ OptimizedAppSearch
    \/ AppSearch
    \/ SimpleAppSearch
    \/ SearchTitles
    \/ OptimizedAppMovies
    \/ MovieListing

(***************************************************************************)
(*                          THE QUERY CACHE                                *)
(*                                                                         *)
(* The cache of OptimizedDatabaseManager, of optimized_database.py and of  *)
(* app.py.  A dict keeps its keys in insertion order: the cache is the     *)
(* sequence of its entries, each with its key and the query text and       *)
(* parameters of the call that computed its result.  execute_query is two  *)
(* steps, the lookup and, after the query has run on a connection, the     *)
(* store of the result; other threads run between them.  Parameters are    *)
(* None, the empty tuple or the tuple (1,).                                *)
(***************************************************************************)
Q_q  == <<"q">>
Q_q1 == <<"q", ":", "(", "1", ",", ")">>

QueryTexts == {Q_q, Q_q1}
Params     == {"None", "()", "(1,)"}

\* str(params)
str(params) ==
    CASE params = "None" -> <<"N", "o", "n", "e">>
      [] params = "()"   -> <<"(", ")">>
      [] params = "(1,)" -> <<"(", "1", ",", ")">>

\* The truth value of params: None and the empty tuple are false.
Truthy(params) == params = "(1,)"

\* params or (): the parameters the cursor executes the query with
Bound(params) == IF params = "None" THEN "()" ELSE params

\* cache_key of execute_query: f"{query}:{str(params)}" if params else query
\* in optimized_database.py, f"{query}:{params}" in app.py
cache_key(mgr, query, params) ==
    IF mgr = "app" \/ Truthy(params)
      THEN query \o <<":">> \o str(params)
      ELSE query

Threads == 1..MaxThreads

Idle == [active |-> FALSE, query |-> <<>>, params |-> "None", use_cache |-> FALSE]

NoHit == [hit |-> FALSE, query |-> <<>>, params |-> "None", use_cache |-> FALSE,
          origin_query |-> <<>>, origin_params |-> "None"]

NoCall == [done |-> FALSE, raised |-> FALSE, returned |-> "nothing"]

\* self.enable_cache, set in __init__ and never changed
enable_cache == TRUE

\* Position of the entry of key in the cache, 0 when it has none
EntryOf(cache, key) ==
    IF \E k \in 1..Len(cache) : cache[k].key = key
      THEN CHOOSE k \in 1..Len(cache) : cache[k].key = key
      ELSE 0

\* Lines 133-137: at cache_size entries the older half is deleted.
Evict(cache) ==
    IF Len(cache) >= cache_size
      THEN SubSeq(cache, (Len(cache) \div 2) + 1, Len(cache))
      ELSE cache

\* cache[key] = result: an entry of the key is replaced in its place, a new
\* key is added at the end.
Assign(cache, item) ==
    IF EntryOf(cache, item.key) # 0
      THEN [cache EXCEPT ![EntryOf(cache, item.key)] = item]
      ELSE Append(cache, item)

KInit ==
    /\ k_manager \in {"optimized_database", "app"}
    /\ query_cache = <<>>
    /\ in_flight = [t \in Threads |-> Idle]
    /\ last_hit = NoHit
    /\ last_call = NoCall

\* execute_query up to the cache lookup (optimized_database.py:105-111,
\* app.py:67-70): a hit returns the cached result.
Lookup(mgr, t, query, params, use_cache) ==
    LET key == cache_key(mgr, query, params)
        k   == EntryOf(query_cache, key)
    IN  IF use_cache /\ enable_cache /\ k # 0
          THEN /\ last_hit' = [hit |-> TRUE, query |-> query, params |-> params,
                               use_cache |-> use_cache,
                               origin_query |-> query_cache[k].query,
                               origin_params |-> query_cache[k].params]
               /\ UNCHANGED in_flight
          ELSE /\ last_hit' = NoHit
               /\ in_flight' = [in_flight EXCEPT ![t] =
                                  [active |-> TRUE, query |-> query,
                                   params |-> params, use_cache |-> use_cache]]

ExecuteQueryLookup(t) ==
    /\ k_manager = "optimized_database" /\ ~in_flight[t].active
    /\ \E query \in QueryTexts, params \in Params, use_cache \in BOOLEAN :
         Lookup(k_manager, t, query, params, use_cache)
    /\ UNCHANGED <<k_manager, query_cache, last_call>>
    /\ UNCHANGED <<ovars, lvars, cvars, qvars, xvars>>

\* Faulty variant of Stores: the store of line 139 also runs for a call whose
\* query raised.
StoresAfterError(raised, use_cache, cacheable) == use_cache /\ cacheable

\* Lines 115-139: the statements of the try block run in order, so an
\* exception of get_connection or of the cursor leaves before line 130; when
\* nothing was raised the result is stored if use_cache and the query was
\* fast and short.
Stores(raised, use_cache, cacheable) == ~raised /\ use_cache /\ cacheable

\* execute_query of optimized_database.py from the execution of the query to
\* the return (lines 115-146): an exception returns [] and stores nothing; a
\* result is stored when the query took less than two seconds and has fewer
\* than 10000 rows.
ExecuteQueryStore(t) ==
    /\ k_manager = "optimized_database" /\ in_flight[t].active
    /\ \E raised \in BOOLEAN, cacheable \in BOOLEAN :
         /\ IF Stores(raised, in_flight[t].use_cache, cacheable)
              THEN query_cache' =
                     Assign(Evict(query_cache),
                            [key    |-> cache_key(k_manager, in_flight[t].query,
                                                  in_flight[t].params),
                             query  |-> in_flight[t].query,
                             params |-> in_flight[t].params])
              ELSE UNCHANGED query_cache
         /\ last_call' = [done |-> TRUE, raised |-> raised,
                          returned |-> IF raised THEN "[]" ELSE "results"]
    /\ in_flight' = [in_flight EXCEPT ![t] = Idle]
    /\ UNCHANGED <<k_manager, last_hit>>
    /\ UNCHANGED <<ovars, lvars, cvars, qvars, xvars>>

\* OptimizedDatabaseManager.clear_cache
ClearCache ==
    /\ k_manager = "optimized_database"
    /\ query_cache' = <<>>
    /\ UNCHANGED <<k_manager, in_flight, last_hit, last_call>>
    /\ UNCHANGED <<ovars, lvars, cvars, qvars, xvars>>

AppExecuteQueryLookup(t) ==
    /\ k_manager = "app" /\ ~in_flight[t].active
    /\ \E query \in QueryTexts, params \in Params :
         Lookup(k_manager, t, query, params, TRUE)
    /\ UNCHANGED <<k_manager, query_cache, last_call>>
    /\ UNCHANGED <<ovars, lvars, cvars, qvars, xvars>>

\* execute_query of app.py from the execution of the query to the return
\* (lines 72-94): an exception leaves through the finally, a result is stored.
AppExecuteQueryStore(t) ==
    /\ k_manager = "app" /\ in_flight[t].active
    /\ \E raised \in BOOLEAN :
         /\ IF ~raised /\ enable_cache
              THEN query_cache' =
                     Assign(query_cache,
                            [key    |-> cache_key(k_manager, in_flight[t].query,
                                                  in_flight[t].params),
                             query  |-> in_flight[t].query,
                             params |-> in_flight[t].params])
              ELSE UNCHANGED query_cache
         /\ last_call' = [done |-> TRUE, raised |-> raised,
                          returned |-> IF raised THEN "exception" ELSE "results"]
    /\ in_flight' = [in_flight EXCEPT ![t] = Idle]
    /\ UNCHANGED <<k_manager, last_hit>>
    /\ UNCHANGED <<ovars, lvars, cvars, qvars, xvars>>

KNext ==
    \/ \E t \in Threads : ExecuteQueryLookup(t)
    \/ \E t \in Threads : ExecuteQueryStore(t)
    \/ ClearCache
    \/ \E t \in Threads : AppExecuteQueryLookup(t)
    \/ \E t \in Threads : AppExecuteQueryStore(t)

(***************************************************************************)
(*                          THE DATABASE RESET                             *)
(*                                                                         *)
(* reset_db.py run as a script: the confirmation prompt, then              *)
(* reset_database, one step per database file.  The answer is a text, a    *)
(* sequence of characters.                                                 *)
(***************************************************************************)
db_files == <<"imdb.db", "imdb.db-shm", "imdb.db-wal">>

A_yes   == <<"y", "e", "s">>
A_YES   == <<"Y", "E", "S">>
A_Yes   == <<"Y", "e", "s">>
A_y     == <<"y">>
A_Y     == <<"Y">>
A_no    == <<"n", "o">>
A_n     == <<"n">>
A_yess  == <<"y", "e", "s", "s">>
A_ye    == <<"y", "e">>
A_yes_  == <<"y", "e", "s", " ">>

Answers == {<<>>, A_yes, A_YES, A_Yes, A_y, A_Y, A_no, A_n, A_yess, A_ye,
            A_yes_}

\* str.lower on the characters of the answers
LowerChar(c) ==
    CASE c = "Y" -> "y"
      [] c = "E" -> "e"
      [] c = "S" -> "s"
      [] c = "N" -> "n"
      [] c = "O" -> "o"
      [] OTHER   -> c

lower_unchanged(s) == s

lower(s) == [i \in 1..Len(s) |-> LowerChar(s[i])]

RInit ==
    /\ confirm \in Answers
    /\ file_exists \in [Range(db_files) -> BOOLEAN]
    /\ remove_raises \in [Range(db_files) -> BOOLEAN]
    /\ r_pc = "prompt" /\ r_idx = 1 /\ deleted_count = 0
    /\ remove_called = {}

\* the __main__ block (reset_db.py:40-45)
ConfirmPrompt ==
    /\ r_pc = "prompt"
    /\ r_pc' = IF lower(confirm) \in {A_yes, A_y} THEN "loop" ELSE "cancelled"
    /\ UNCHANGED <<confirm, file_exists, remove_raises, r_idx, deleted_count,
                   remove_called>>
    /\ UNCHANGED not_rvars

\* one iteration of the loop of reset_database (reset_db.py:23-32)
ResetFile ==
    /\ r_pc = "loop" /\ r_idx <= Len(db_files)
    /\ LET db_file == db_files[r_idx]
       IN  IF file_exists[db_file]
             THEN /\ remove_called' = remove_called \cup {db_file}
                  /\ IF remove_raises[db_file]
                       THEN UNCHANGED <<file_exists, deleted_count>>
                       ELSE /\ file_exists' =
                                 [file_exists EXCEPT ![db_file] = FALSE]
                            /\ deleted_count' = deleted_count + 1
             ELSE UNCHANGED <<file_exists, deleted_count, remove_called>>
    /\ r_idx' = r_idx + 1
    /\ UNCHANGED <<confirm, remove_raises, r_pc>>
    /\ UNCHANGED not_rvars

\* the report of reset_database (reset_db.py:34-38)
ResetReport ==
    /\ r_pc = "loop" /\ r_idx > Len(db_files)
    /\ r_pc' = "done"
    /\ UNCHANGED <<confirm, file_exists, remove_raises, r_idx, deleted_count,
                   remove_called>>
    /\ UNCHANGED not_rvars

RNext ==
    \/ ConfirmPrompt
    \/ ResetFile
    \/ ResetReport

(***************************************************************************)
(*                            TITLE LOOKUP                                 *)
(*                                                                         *)
(* The route /movie/<tconst> of the three applications.  The store is      *)
(* the set of tconst values of title_basics; the importers add titles to   *)
(* it while an application is serving.  A                                 *)
(* result of the lookup query is the sequence of its rows, a row being     *)
(* named by its tconst.  The cache of the application's database manager   *)
(* is reduced to the entries of the lookup query, one per tconst.          *)
(***************************************************************************)
TitleIds == 1..MaxTitles

NotCached == [cached |-> FALSE, result |-> <<>>]

NoResponse == [tconst |-> 0, outcome |-> "none", row |-> 0, present |-> FALSE,
               raised |-> FALSE]

\* SELECT ... WHERE tb.tconst = ?  (simple_app.py:119-124, MOVIE_DETAILS of
\* optimized_database.py:277-293, app.py:360-365)
MOVIE_DETAILS(titles, tconst) ==
    IF tconst \in titles THEN <<tconst>> ELSE <<>>

\* execute_query of simple_app.py (lines 24-34): no cache, an exception
\* propagates to the route
SimpleExecuteQuery(titles, tconst, raised) ==
    [raised |-> raised, result |-> MOVIE_DETAILS(titles, tconst)]

\* execute_query of optimized_database.py (lines 100-146) on the lookup query:
\* a cached result is returned; an exception is caught and [] returned.
OptimizedExecuteQuery(cache, titles, tconst, raised) ==
    IF cache[tconst].cached
      THEN [raised |-> FALSE, result |-> cache[tconst].result]
      ELSE [raised |-> FALSE,
            result |-> IF raised THEN <<>> ELSE MOVIE_DETAILS(titles, tconst)]

\* execute_query of app.py (lines 65-94): a cached result is returned; an
\* exception propagates to the route.
AppExecuteQuery(cache, titles, tconst, raised) ==
    IF cache[tconst].cached
      THEN [raised |-> FALSE, result |-> cache[tconst].result]
      ELSE [raised |-> raised, result |-> MOVIE_DETAILS(titles, tconst)]

\* the cache after the call: a result computed without exception is stored
\* (optimized_database.py:131-139 for a fast query, app.py:88-89)
CacheAfter(cache, titles, tconst, raised) ==
    IF ~cache[tconst].cached /\ ~raised
      THEN [cache EXCEPT ![tconst] =
              [cached |-> TRUE, result |-> MOVIE_DETAILS(titles, tconst)]]
      ELSE cache

\* the response of movie_details from the outcome of the lookup query
Respond(app, tconst, q, raised) ==
    [tconst  |-> tconst,
     outcome |-> IF q.raised
                   THEN IF app = "simple_app" THEN "error 500"
                                              ELSE "error flash, redirect"
                   ELSE IF q.result = <<>>
                          THEN IF app = "simple_app"
                                 THEN "not found 404"
                                 ELSE "not found flash, redirect"
                          ELSE "details",
     row     |-> IF ~q.raised /\ q.result # <<>> THEN q.result[1] ELSE 0,
     present |-> tconst \in d_titles,
     raised  |-> raised]

DInit ==
    /\ d_app \in {"simple_app", "optimized_app", "app"}
    /\ d_titles \in SUBSET TitleIds
    /\ d_cache = [t \in TitleIds |-> NotCached]
    /\ d_response = NoResponse

\* movie_details of simple_app.py (lines 114-145)
SimpleMovieDetails ==
    /\ d_app = "simple_app"
    /\ \E tconst \in TitleIds, raised \in BOOLEAN :
         d_response' = Respond(d_app, tconst,
                               SimpleExecuteQuery(d_titles, tconst, raised),
                               raised)
    /\ UNCHANGED <<d_app, d_titles, d_cache>>
    /\ UNCHANGED not_dvars

\* movie_details of optimized_app.py (lines 197-255)
OptimizedMovieDetails ==
    /\ d_app = "optimized_app"
    /\ \E tconst \in TitleIds, raised \in BOOLEAN :
         /\ d_response' =
              Respond(d_app, tconst,
                      OptimizedExecuteQuery(d_cache, d_titles, tconst, raised),
                      raised)
         /\ d_cache' = CacheAfter(d_cache, d_titles, tconst, raised)
    /\ UNCHANGED <<d_app, d_titles>>
    /\ UNCHANGED not_dvars

\* movie_details of app.py (lines 356-413)
AppMovieDetails ==
    /\ d_app = "app"
    /\ \E tconst \in TitleIds, raised \in BOOLEAN :
         /\ d_response' =
              Respond(d_app, tconst,
                      AppExecuteQuery(d_cache, d_titles, tconst, raised),
                      raised)
         /\ d_cache' = CacheAfter(d_cache, d_titles, tconst, raised)
    /\ UNCHANGED <<d_app, d_titles>>
    /\ UNCHANGED not_dvars

\* the route /cache/clear of optimized_app.py (lines 471-480)
DetailsClearCache ==
    /\ d_app = "optimized_app"
    /\ d_cache' = [t \in TitleIds |-> NotCached]
    /\ UNCHANGED <<d_app, d_titles, d_response>>
    /\ UNCHANGED not_dvars

\* a load step of an importer adds a title to title_basics
ImportTitle ==
    /\ \E tconst \in TitleIds \ d_titles : d_titles' = d_titles \cup {tconst}
    /\ UNCHANGED <<d_app, d_cache, d_response>>
    /\ UNCHANGED not_dvars

DNext ==
    \/ SimpleMovieDetails
    \/ OptimizedMovieDetails
    \/ AppMovieDetails
    \/ DetailsClearCache
    \/ ImportTitle

(***************************************************************************)
(*                  THE WORKER POOLS OF turbo_import                       *)
(*                                                                         *)
(* The loop of turbo_import with the threads of parallel_insert: the main  *)
(* thread submits one _insert_chunk per chunk to the ThreadPoolExecutor of *)
(* the call, takes the results of the futures in the order of submission   *)
(* and leaves the with block.  A task is named by its table and chunk      *)
(* number and is "none" (not submitted, or its executor is gone),          *)
(* "pending", "running", "done" or "raised"; the content of the rows       *)
(* plays no part.                                                          *)
(***************************************************************************)
ChunkIds == 1..MaxRows

NoTasks == [t \in Tables |-> [i \in ChunkIds |-> "none"]]

InFlight == {"pending", "running"}

\* the number of chunks parallel_insert makes of n rows (lines 220-221)
ChunksOf(n, cpus, mem) ==
    NumChunks(n, chunk_size("turbo", [k \in 1..n |-> k], cpus, mem,
                            CloneChunkDefault))

\* the with statement does not wait for the tasks (shutdown(wait=False))
ExecutorExitNoWait(tasks) == TRUE

\* ThreadPoolExecutor.__exit__ (the end of the with block of line 224):
\* shutdown(wait=True) returns when no task of the executor is pending or
\* running
ExecutorExit(tasks) == \A i \in ChunkIds : tasks[i] \notin InFlight

TInit ==
    /\ t_cpu \in 1..MaxCpu
    /\ t_idx = 1
    /\ t_pc = "loop"
    /\ t_task = NoTasks
    /\ t_next = 1

\* one iteration of the loop of turbo_import up to the submission of the
\* chunks (lines 348-358, 213-228): a file that is absent or yields an empty
\* DataFrame is passed over
TurboSubmit ==
    /\ t_pc = "loop" /\ t_idx <= Len(import_sequence)
    /\ \E n \in 0..MaxRows, mem \in MemoryGB :
         IF n = 0
           THEN /\ t_idx' = t_idx + 1
                /\ UNCHANGED <<t_pc, t_task, t_next>>
           ELSE /\ t_task' = [t_task EXCEPT ![import_sequence[t_idx]] =
                                [i \in ChunkIds |->
                                   IF i <= ChunksOf(n, t_cpu, mem)
                                     THEN "pending" ELSE "none"]]
                /\ t_pc' = "wait"
                /\ t_next' = 1
                /\ UNCHANGED t_idx
    /\ UNCHANGED t_cpu
    /\ UNCHANGED not_tvars

\* a worker thread of the executor of table t takes its oldest pending task
WorkerStart(t, i) ==
    /\ t_task[t][i] = "pending"
    /\ \A j \in 1..(i - 1) : t_task[t][j] # "pending"
    /\ Cardinality({j \in ChunkIds : t_task[t][j] = "running"})
          < max_workers(t_cpu)
    /\ t_task' = [t_task EXCEPT ![t][i] = "running"]
    /\ UNCHANGED <<t_cpu, t_idx, t_pc, t_next>>
    /\ UNCHANGED not_tvars

\* _insert_chunk ends (lines 243-260): sqlite3.connect is outside the try and
\* its exception becomes the exception of the future; an error of to_sql is
\* caught and printed
WorkerEnd(t, i) ==
    /\ t_task[t][i] = "running"
    /\ \E connect_raises \in BOOLEAN :
         t_task' = [t_task EXCEPT ![t][i] =
                      IF connect_raises THEN "raised" ELSE "done"]
    /\ UNCHANGED <<t_cpu, t_idx, t_pc, t_next>>
    /\ UNCHANGED not_tvars

\* future.result() of the loop of lines 232-236: blocks until the future has
\* ended and raises its exception
FutureResult ==
    /\ t_pc = "wait"
    /\ LET t == import_sequence[t_idx] IN
         /\ t_next \in ChunkIds
         /\ t_task[t][t_next] \in {"done", "raised"}
         /\ IF t_task[t][t_next] = "raised"
              THEN t_pc' = "exit" /\ UNCHANGED t_next
              ELSE t_pc' = "wait" /\ t_next' = t_next + 1
    /\ UNCHANGED <<t_cpu, t_idx, t_task>>
    /\ UNCHANGED not_tvars

\* the end of the with block and of parallel_insert: after the last result,
\* or with the exception of a future, which then leaves turbo_import
ParallelInsertReturn ==
    /\ LET t == import_sequence[t_idx] IN
         /\ \/ t_pc = "exit"
            \/ /\ t_pc = "wait"
               /\ \A i \in ChunkIds : i >= t_next => t_task[t][i] = "none"
         /\ ExecutorExit(t_task[t])
         /\ t_task' = [t_task EXCEPT ![t] =
                         [i \in ChunkIds |->
                            IF t_task[t][i] \in InFlight THEN t_task[t][i]
                                                         ELSE "none"]]
    /\ IF t_pc = "exit"
         THEN t_pc' = "aborted" /\ UNCHANGED t_idx
         ELSE t_pc' = "loop" /\ t_idx' = t_idx + 1
    /\ UNCHANGED <<t_cpu, t_next>>
    /\ UNCHANGED not_tvars

\* create_indexes_parallel is called after the loop (line 364)
TurboCreateIndexes ==
    /\ t_pc = "loop" /\ t_idx > Len(import_sequence)
    /\ t_pc' = "index"
    /\ UNCHANGED <<t_cpu, t_idx, t_task, t_next>>
    /\ UNCHANGED not_tvars

\* finalize_database and the end of turbo_import (lines 367-374)
TurboFinalize ==
    /\ t_pc = "index"
    /\ t_pc' = "done"
    /\ UNCHANGED <<t_cpu, t_idx, t_task, t_next>>
    /\ UNCHANGED not_tvars

TNext ==
    \/ TurboSubmit
    \/ \E t \in Tables, i \in ChunkIds : WorkerStart(t, i)
    \/ \E t \in Tables, i \in ChunkIds : WorkerEnd(t, i)
    \/ FutureResult
    \/ ParallelInsertReturn
    \/ TurboCreateIndexes
    \/ TurboFinalize

(***************************************************************************)
(*                 THE CONNECTION POOL AND THE BATCH INSERT                *)
(*                                                                         *)
(* OptimizedDatabaseManager of optimized_database.py on SQLite, called by  *)
(* several threads: get_connection, execute_query and                      *)
(* execute_batch_insert.  A connection is a number; it is open or closed,  *)
(* has a transaction open or not, and holds the rows inserted in its open  *)
(* transaction.  Every call of execute_batch_insert inserts two batches of *)
(* one row; a row is named by thread, call and batch.  A thread holds a    *)
(* connection from the entry to the exit of the with block of              *)
(* get_connection.                                                         *)
(***************************************************************************)
ConnIds == 1..MaxConns

PoolThreads == 1..MaxPoolThreads

InitialConnections == 5

Batches == {1, 2}

NoConnection == [status |-> "none", in_txn |-> FALSE, pending |-> {}]

OpenConnection == [status |-> "open", in_txn |-> FALSE, pending |-> {}]

ThreadIdle == [pc |-> "idle", conn |-> 0, call |-> 0, batch |-> 0,
               failed |-> FALSE]

NoOp == [thread |-> 0, conn |-> 0, state |-> "none"]

\* the positions between the entry and the exit of the with block
InWith == {"query", "begin", "batch", "commit"}

Holds(t, c) == p_thread[t].conn = c /\ p_thread[t].pc \in InWith

\* what connection c is to thread t at the moment t operates on it
OpState(t, c) ==
    IF c = 0 THEN "unbound"
    ELSE IF p_conn[c].status = "closed" THEN "closed"
    ELSE IF c \in Range(connection_pool) THEN "pooled"
    ELSE IF \E u \in PoolThreads \ {t} : Holds(u, c) THEN "shared"
    ELSE IF Holds(t, c) THEN "held"
    ELSE "returned"

\* the numbers of the connections not yet created
Fresh == {c \in ConnIds : p_conn[c].status = "none"}

\* another connection has written in its open transaction: it has the write
\* lock of the database file
LockedByOther(c) ==
    \E o \in ConnIds \ {c} : p_conn[o].in_txn /\ p_conn[o].pending # {}

\* _initialize_connection_pool (lines 36-45): up to min(5, max_connections)
\* connections, one fewer for every _create_connection that returns None
PInit ==
    /\ \E k \in 0..Min(InitialConnections, max_connections) :
         /\ connection_pool = [i \in 1..k |-> i]
         /\ p_conn = [c \in ConnIds |->
                        IF c <= k THEN OpenConnection ELSE NoConnection]
    /\ p_thread = [t \in PoolThreads |-> ThreadIdle]
    /\ p_committed = {}
    /\ p_calls = [t \in PoolThreads |-> 0]
    /\ p_op = NoOp
    /\ p_done = {}

\* the entry of get_connection (lines 79-90) by thread t for a call that
\* goes on at position pc_held: the last connection of the pool, or a new
\* one; without a connection the exception leaves the with statement and the
\* call goes on at position pc_none
Acquire(t, pc_held, pc_none, call) ==
    IF connection_pool # <<>>
      THEN /\ connection_pool' = SubSeq(connection_pool, 1,
                                        Len(connection_pool) - 1)
           /\ p_thread' = [p_thread EXCEPT ![t] =
                 [pc |-> pc_held, conn |-> connection_pool[Len(connection_pool)],
                  call |-> call, batch |-> 1, failed |-> FALSE]]
           /\ UNCHANGED p_conn
      ELSE \E created \in BOOLEAN :
             IF created /\ Fresh # {}
               THEN LET c == CHOOSE x \in Fresh : \A y \in Fresh : x <= y
                    IN  /\ p_conn' = [p_conn EXCEPT ![c] = OpenConnection]
                        /\ p_thread' = [p_thread EXCEPT ![t] =
                              [pc |-> pc_held, conn |-> c, call |-> call,
                               batch |-> 1, failed |-> FALSE]]
                        /\ UNCHANGED connection_pool
               ELSE /\ p_thread' = [p_thread EXCEPT ![t] =
                          IF pc_none = "idle" THEN ThreadIdle
                          ELSE [pc |-> pc_none, conn |-> 0, call |-> call,
                                batch |-> 1, failed |-> TRUE]]
                    /\ UNCHANGED <<connection_pool, p_conn>>

\* the pool after the finally of get_connection (lines 92-98) for c
PoolAfterRelease(c) ==
    IF Len(connection_pool) < max_connections
      THEN Append(connection_pool, c)
      ELSE connection_pool

\* the connections after the finally of get_connection for c, whose record
\* has become rec: a connection the pool has no room for is closed, which
\* discards its open transaction
ConnAfterRelease(c, rec) ==
    IF Len(connection_pool) < max_connections
      THEN [p_conn EXCEPT ![c] = rec]
      ELSE [p_conn EXCEPT ![c] = [status |-> "closed", in_txn |-> FALSE,
                                  pending |-> {}]]

\* execute_query up to the entry of the with block (lines 100-116); without a
\* connection the exception is caught and [] returned
ExecuteQueryEnter(t) ==
    /\ p_thread[t].pc = "idle"
    /\ Acquire(t, "query", "idle", 0)
    /\ UNCHANGED <<p_committed, p_calls, p_op, p_done>>
    /\ UNCHANGED not_pvars

\* execute_query from cursor.execute to the return (lines 117-146): the query
\* runs on the connection, the with block ends
ExecuteQueryRun(t) ==
    /\ p_thread[t].pc = "query"
    /\ LET c == p_thread[t].conn IN
         /\ p_op' = [thread |-> t, conn |-> c, state |-> OpState(t, c)]
         /\ connection_pool' = PoolAfterRelease(c)
         /\ p_conn' = ConnAfterRelease(c, p_conn[c])
    /\ p_thread' = [p_thread EXCEPT ![t] = ThreadIdle]
    /\ UNCHANGED <<p_committed, p_calls, p_done>>
    /\ UNCHANGED not_pvars

\* execute_batch_insert up to the entry of the with block (lines 159-168);
\* without a connection the exception is caught by the except of line 200
BatchInsertEnter(t) ==
    /\ p_thread[t].pc = "idle"
    /\ p_calls[t] < MaxCalls
    /\ p_calls' = [p_calls EXCEPT ![t] = @ + 1]
    /\ Acquire(t, "begin", "rollback", p_calls[t] + 1)
    /\ UNCHANGED <<p_committed, p_op, p_done>>
    /\ UNCHANGED not_pvars

\* the thread after an exception inside the with block: the finally of
\* get_connection has run, the except clause is next
AfterException(t) ==
    [p_thread EXCEPT ![t].pc = "rollback", ![t].failed = TRUE]

\* conn.execute("BEGIN TRANSACTION") (line 170): raises when the connection
\* has a transaction open
BatchBegin(t) ==
    /\ p_thread[t].pc = "begin"
    /\ LET c == p_thread[t].conn IN
         /\ p_op' = [thread |-> t, conn |-> c, state |-> OpState(t, c)]
         /\ IF p_conn[c].in_txn
              THEN /\ connection_pool' = PoolAfterRelease(c)
                   /\ p_conn' = ConnAfterRelease(c, p_conn[c])
                   /\ p_thread' = AfterException(t)
              ELSE /\ p_conn' = [p_conn EXCEPT ![c].in_txn = TRUE]
                   /\ p_thread' = [p_thread EXCEPT ![t].pc = "batch"]
                   /\ UNCHANGED connection_pool
    /\ UNCHANGED <<p_committed, p_calls, p_done>>
    /\ UNCHANGED not_pvars

\* one cursor.executemany of the loop of lines 184-192: the rows are written
\* in the open transaction of the connection, which sqlite3 opens first when
\* there is none; the statement raises on a constraint, or when the database
\* file stays locked by the transaction of another connection
BatchExecutemany(t) ==
    /\ p_thread[t].pc = "batch"
    /\ LET c   == p_thread[t].conn
           row == [thread |-> t, call |-> p_thread[t].call,
                   batch |-> p_thread[t].batch]
       IN  /\ p_op' = [thread |-> t, conn |-> c, state |-> OpState(t, c)]
           /\ \E raises \in (IF LockedByOther(c) THEN {TRUE} ELSE BOOLEAN) :
                IF raises
                  THEN /\ connection_pool' = PoolAfterRelease(c)
                       /\ p_conn' = ConnAfterRelease(c, p_conn[c])
                       /\ p_thread' = AfterException(t)
                  ELSE /\ p_conn' = [p_conn EXCEPT ![c] =
                             [status |-> "open", in_txn |-> TRUE,
                              pending |-> p_conn[c].pending \cup {row}]]
                       /\ p_thread' = [p_thread EXCEPT
                             ![t].batch = @ + 1,
                             ![t].pc = IF p_thread[t].batch + 1 \in Batches
                                         THEN "batch" ELSE "commit"]
                       /\ UNCHANGED connection_pool
    /\ UNCHANGED <<p_committed, p_calls, p_done>>
    /\ UNCHANGED not_pvars

\* conn.execute("COMMIT") and the end of the with block (lines 194-198):
\* the rows of the open transaction are persisted; without an open
\* transaction the statement raises
BatchCommit(t) ==
    /\ p_thread[t].pc = "commit"
    /\ LET c == p_thread[t].conn IN
         /\ p_op' = [thread |-> t, conn |-> c, state |-> OpState(t, c)]
         /\ connection_pool' = PoolAfterRelease(c)
         /\ IF p_conn[c].in_txn
              THEN /\ p_committed' = p_committed \cup p_conn[c].pending
                   /\ p_conn' = ConnAfterRelease(c, OpenConnection)
                   /\ p_thread' = [p_thread EXCEPT ![t] = ThreadIdle]
                   /\ p_done' = p_done \cup
                         {[thread |-> t, call |-> p_thread[t].call,
                           failed |-> FALSE, unhandled |-> FALSE]}
              ELSE /\ p_conn' = ConnAfterRelease(c, p_conn[c])
                   /\ p_thread' = AfterException(t)
                   /\ UNCHANGED <<p_committed, p_done>>
    /\ UNCHANGED p_calls
    /\ UNCHANGED not_pvars

\* the except clause (lines 200-203): conn.execute("ROLLBACK") on the
\* variable conn, after the with block has ended.  The statement raises out
\* of the except clause when conn was never bound (UnboundLocalError), when
\* the connection is closed and when it has no transaction open.
BatchRollback(t) ==
    /\ p_thread[t].pc = "rollback"
    /\ LET c == p_thread[t].conn
           rolls_back == c # 0 /\ p_conn[c].status = "open" /\ p_conn[c].in_txn
       IN  /\ p_op' = [thread |-> t, conn |-> c, state |-> OpState(t, c)]
           /\ p_conn' = IF rolls_back
                          THEN [p_conn EXCEPT ![c] = OpenConnection]
                          ELSE p_conn
           /\ p_done' = p_done \cup
                 {[thread |-> t, call |-> p_thread[t].call,
                   failed |-> TRUE, unhandled |-> ~rolls_back]}
    /\ p_thread' = [p_thread EXCEPT ![t] = ThreadIdle]
    /\ UNCHANGED <<connection_pool, p_committed, p_calls>>
    /\ UNCHANGED not_pvars

PNext ==
    \/ \E t \in PoolThreads : ExecuteQueryEnter(t)
    \/ \E t \in PoolThreads : ExecuteQueryRun(t)
    \/ \E t \in PoolThreads : BatchInsertEnter(t)
    \/ \E t \in PoolThreads : BatchBegin(t)
    \/ \E t \in PoolThreads : BatchExecutemany(t)
    \/ \E t \in PoolThreads : BatchCommit(t)
    \/ \E t \in PoolThreads : BatchRollback(t)

(***************************************************************************)
(*                 THE PAGINATION OF THE MOVIE LISTINGS                    *)
(*                                                                         *)
(* The arithmetic of the movies routes of app.py, simple_app.py and        *)
(* optimized_app.py: one step is one request.  The page argument is any    *)
(* integer the query string gives, the values below 1 included; the count  *)
(* of matching rows is what the count query returned.  Only               *)
(* optimized_app.py reads per_page from the request.                       *)
(***************************************************************************)
PageArgs    == (0 - 1)..(MaxPage + 1)
PerPageArgs == {0, 1, 2, DefaultPerPage, MaxPerPage + 1}
Totals      == 0..MaxTotal

NoListing == [route |-> "none", page |-> 1, per_page |-> 1, total_count |-> 0]

NoPagination ==
    [outcome |-> "none", page |-> 1, per_page |-> 1, offset |-> 0,
     total_pages |-> 0, flags |-> FALSE, has_prev |-> FALSE, has_next |-> FALSE]

\* a // b of Python for a >= 0 and b > 0
FloorDiv(a, b) == a \div b

MInit == m_request = NoListing /\ pagination = NoPagination

\* movies of app.py (lines 254-352): page as given, per_page = 20
AppMovies ==
    /\ \E page \in PageArgs, total_count \in Totals :
         LET per_page    == AppPerPage
             offset      == (page - 1) * per_page
             total_pages == FloorDiv(total_count + per_page - 1, per_page)
         IN  /\ m_request' = [route |-> "app", page |-> page,
                              per_page |-> per_page, total_count |-> total_count]
             /\ pagination' = [outcome |-> "rendered", page |-> page,
                               per_page |-> per_page, offset |-> offset,
                               total_pages |-> total_pages, flags |-> TRUE,
                               has_prev |-> page > 1,
                               has_next |-> page < total_pages]
    /\ UNCHANGED not_mvars

\* movies of simple_app.py (lines 76-106): page as given, per_page = 50
SimpleMovies ==
    /\ \E page \in PageArgs, total \in Totals :
         LET per_page == SimplePerPage
             offset   == (page - 1) * per_page
         IN  /\ m_request' = [route |-> "simple_app", page |-> page,
                              per_page |-> per_page, total_count |-> total]
             /\ pagination' = [outcome |-> "rendered", page |-> page,
                               per_page |-> per_page, offset |-> offset,
                               total_pages |-> 0, flags |-> TRUE,
                               has_prev |-> page > 1,
                               has_next |-> (page * per_page) < total]
    /\ UNCHANGED not_mvars

\* movies of optimized_app.py (lines 149-194): page = max(1, page),
\* per_page = min(100, per_page); per_page = 0 raises ZeroDivisionError at
\* total_pages and the except clause renders the empty page 1 of 1.
OptimizedMovies ==
    /\ \E page_arg \in PageArgs, per_page_arg \in PerPageArgs,
          total_count \in Totals :
         LET page     == IF page_arg < 1 THEN 1 ELSE page_arg
             per_page == Min(MaxPerPage, per_page_arg)
             offset   == (page - 1) * per_page
         IN  /\ m_request' = [route |-> "optimized_app", page |-> page_arg,
                              per_page |-> per_page_arg,
                              total_count |-> total_count]
             /\ pagination' =
                  IF per_page = 0
                    THEN [outcome |-> "error page", page |-> 1,
                          per_page |-> per_page, offset |-> offset,
                          total_pages |-> 1, flags |-> FALSE,
                          has_prev |-> FALSE, has_next |-> FALSE]
                    ELSE [outcome |-> "rendered", page |-> page,
                          per_page |-> per_page, offset |-> offset,
                          total_pages |->
                              FloorDiv(total_count + per_page - 1, per_page),
                          flags |-> FALSE,
                          has_prev |-> FALSE, has_next |-> FALSE]
    /\ UNCHANGED not_mvars

MNext ==
    \/ AppMovies
    \/ SimpleMovies
    \/ OptimizedMovies

(***************************************************************************)
(*                          THE SPECIFICATIONS                             *)
(***************************************************************************)
OIdle ==
    /\ entry = "turbo" /\ dataset_dir = TRUE
    /\ file = [t \in Tables |-> "ok"]
    /\ db_tables = "none" /\ count = ZeroCount /\ indexes = {}
    /\ foreign_keys = FALSE /\ pc = "idle" /\ idx = 1 /\ run = 1
    /\ started = <<>> /\ prev = "none" /\ count0 = ZeroCount

LIdle ==
    /\ loader = "turbo" /\ df = <<>> /\ cpu_count = 1 /\ memory_gb = 4
    /\ clone_chunk = CloneChunkDefault /\ chunk_state = <<>> /\ attempts = <<>>
    /\ commit_order = <<>> /\ imported_rows = 0 /\ table = {} /\ lpc = "idle"
    /\ attempted = 0 /\ persisted = 0

CIdle ==
    /\ cz_importer = "turbo" /\ cz_table = "title_basics" /\ raw = <<>>
    /\ bad_line = 0 /\ frame = <<>> /\ cz_pc = "idle" /\ stored = {}

QIdle ==
    /\ q_kind = "search" /\ q_store = <<>> /\ q_request = NoRequest
    /\ q_result = <<>> /\ q_pc = "idle"

KIdle ==
    /\ k_manager = "optimized_database" /\ query_cache = <<>>
    /\ in_flight = [t \in Threads |-> Idle] /\ last_hit = NoHit
    /\ last_call = NoCall

RIdle ==
    /\ confirm = <<>> /\ file_exists = [f \in Range(db_files) |-> FALSE]
    /\ remove_raises = [f \in Range(db_files) |-> FALSE]
    /\ r_pc = "idle" /\ r_idx = 1 /\ deleted_count = 0 /\ remove_called = {}

DIdle ==
    /\ d_app = "simple_app" /\ d_titles = {}
    /\ d_cache = [t \in TitleIds |-> NotCached] /\ d_response = NoResponse

TIdle ==
    /\ t_cpu = 1 /\ t_idx = 1 /\ t_pc = "idle" /\ t_task = NoTasks
    /\ t_next = 1

PIdle ==
    /\ connection_pool = <<>> /\ p_conn = [c \in ConnIds |-> NoConnection]
    /\ p_thread = [t \in PoolThreads |-> ThreadIdle] /\ p_committed = {}
    /\ p_calls = [t \in PoolThreads |-> 0] /\ p_op = NoOp /\ p_done = {}

MIdle == m_request = NoListing /\ pagination = NoPagination

XIdle == RIdle /\ DIdle /\ TIdle /\ PIdle /\ MIdle

Init == OInit /\ LIdle /\ CIdle /\ QIdle /\ KIdle /\ XIdle
Next == ONext
Spec == Init /\ [][Next]_vars

InitInterrupt == Init
NextInterrupt ==
    \/ ONext
    \/ InterruptAndRerun
SpecInterrupt == InitInterrupt /\ [][NextInterrupt]_vars

InitLoad == LInit /\ OIdle /\ CIdle /\ QIdle /\ KIdle /\ XIdle
NextLoad == LNext
SpecLoad == InitLoad /\ [][NextLoad]_vars

InitCoerce == CInit /\ OIdle /\ LIdle /\ QIdle /\ KIdle /\ XIdle
NextCoerce == CNext
SpecCoerce == InitCoerce /\ [][NextCoerce]_vars

InitQuery == QInit /\ OIdle /\ LIdle /\ CIdle /\ KIdle /\ XIdle
NextQuery == QNext
SpecQuery == InitQuery /\ [][NextQuery]_vars

InitCache == KInit /\ OIdle /\ LIdle /\ CIdle /\ QIdle /\ XIdle
NextCache == KNext
SpecCache == InitCache /\ [][NextCache]_vars

BaseIdle == OIdle /\ LIdle /\ CIdle /\ QIdle /\ KIdle

InitReset == RInit /\ BaseIdle /\ DIdle /\ TIdle /\ PIdle /\ MIdle
NextReset == RNext
SpecReset == InitReset /\ [][NextReset]_vars

InitDetails == DInit /\ BaseIdle /\ RIdle /\ TIdle /\ PIdle /\ MIdle
NextDetails == DNext
SpecDetails == InitDetails /\ [][NextDetails]_vars

InitPool == TInit /\ BaseIdle /\ RIdle /\ DIdle /\ PIdle /\ MIdle
NextPool == TNext
SpecPool == InitPool /\ [][NextPool]_vars

InitConn == PInit /\ BaseIdle /\ RIdle /\ DIdle /\ TIdle /\ MIdle
NextConn == PNext
SpecConn == InitConn /\ [][NextConn]_vars

InitPages == MInit /\ BaseIdle /\ RIdle /\ DIdle /\ TIdle /\ PIdle
NextPages == MNext
SpecPages == InitPages /\ [][NextPages]_vars

(***************************************************************************)
(*                     CLAIMS ON THE ORCHESTRATORS (Spec)                  *)
(***************************************************************************)
\* The order of section 4.5: Title, Person, Rating, Episode, Crew,
\* AlternateTitle, Principal.
EntityOrder ==
    <<"title_basics", "name_basics", "title_ratings", "title_episode",
      "title_crew", "title_akas", "title_principals">>

EntityPos(t) == CHOOSE i \in 1..Len(EntityOrder) : EntityOrder[i] = t

\* C1: in every import run the load steps are started in the order Title,
\* Person, Rating, Episode, Crew, AlternateTitle, Principal: no step of a
\* later entity of this list starts before the step of an earlier one.
C1_LoadOrder ==
    \A i, j \in 1..Len(started) :
        i < j => EntityPos(started[i]) < EntityPos(started[j])

\* C2: once the schema has been created, no per-entity failure (unreadable
\* file, error raised while coercing, failing batches) ends the run: the
\* importer is never left by an exception after the schema step.
C2_NoAbortAfterSchema == pc # "aborted"

OptionalTables == Tables \ {"title_basics", "name_basics"}

OneOptionalAbsent(t) ==
    /\ t \in OptionalTables
    /\ file[t] = "absent"
    /\ \A u \in Tables \ {t} : file[u] = "ok"

\* C3: when exactly one file other than the Title and Person files is absent
\* (and the store can be opened), the entry point, the launcher included,
\* ends finalized, with the absent entity's table empty and every other table
\* holding the rows of its file.
C3_PartialFileTolerance ==
    \A t \in OptionalTables :
        (OneOptionalAbsent(t) /\ dataset_dir /\ pc \in Terminal \ {"schema_fatal"})
          => /\ pc = "done"
             /\ \A u \in Tables : count[u] = IF u = t THEN 0 ELSE FileRows

\* C4: a run of the entry point that starts on a store an earlier run populated
\* (title_basics has rows) and finalized changes the row count of no table at
\* any moment: nothing is dropped, deleted or inserted again.
C4_IdempotentSetup ==
    (run >= 2 /\ prev = "done" /\ count0["title_basics"] > 0) => count = count0

(***************************************************************************)
(*                    CLAIMS ON ONE TABLE LOAD (SpecLoad)                  *)
(***************************************************************************)
\* The table the chunk loop of import_data (imdb_clone.py:193-205) leaves when
\* no insert fails for a storage-level reason: the batches i, i+1, ... of d
\* inserted one after the other into tbl.
RECURSIVE SeqLoadFrom(_, _, _, _, _)
SeqLoadFrom(tbl, d, cs, ldr, i) ==
    IF i > NumChunks(Len(d), cs) THEN tbl
    ELSE SeqLoadFrom(to_sql(tbl, ChunkRows(d, cs, i), ldr), d, cs, ldr, i + 1)

SeqLoad(d, cs, ldr) == SeqLoadFrom({}, d, cs, ldr, 1)

LoadEnded == lpc \in {"reported", "returned", "error"}
NoDbError == \A i \in 1..NC : chunk_state[i] # "db_error"
Failed(i) == chunk_state[i] \in {"rejected", "db_error"}
RowsOfChunk(i) == Range(ChunkRows(df, CS, i))

\* C5: a batch whose bulk insert failed was attempted once and left none of
\* its rows in the table, a batch whose insert succeeded has all its rows in
\* the table, and when the load has ended every batch has been attempted: the
\* table holds exactly the rows of the batches that succeeded.
C5_BatchFailureIsolation ==
    /\ table = UNION {RowsOfChunk(i) : i \in {j \in 1..NC : chunk_state[j] = "ok"}}
    /\ Cardinality(table) =
         Len(df) - Cardinality({k \in 1..Len(df) :
                     \E i \in 1..NC : /\ chunk_state[i] # "ok"
                                      /\ (i - 1) * CS < k /\ k <= i * CS})
    /\ \A i \in 1..NC : attempts[i] = IF chunk_state[i] \in Finished THEN 1 ELSE 0
    /\ LoadEnded => \A i \in 1..NC : chunk_state[i] \in Finished

\* A load has ended in which a batch failed and a later batch was persisted.
C5_Witness ==
    /\ lpc = "reported"
    /\ \E i, j \in 1..NC : i < j /\ Failed(i) /\ chunk_state[j] = "ok"
    /\ \E i \in 1..NC : chunk_state[i] = "rejected" /\ Len(ChunkRows(df, CS, i)) >= 2

\* C6: the loader's report gives the rows offered as attempted and the rows
\* written to the table as persisted; when a batch failed, persisted is
\* smaller than attempted.
C6_ReportedCounts ==
    lpc = "reported" =>
        /\ attempted = Len(df)
        /\ persisted = Cardinality(table)
        /\ (\E i \in 1..NC : Failed(i)) => persisted < attempted

BatchSizes == 1..(MaxRows + 1)

ValidRows(d, ldr) == BatchAccepted({}, d, ldr)

NoSharedKey ==
    \A i, j \in 1..NC : i # j =>
        \A r \in RowsOfChunk(i) : \A q \in RowsOfChunk(j) : r.tconst # q.tconst

RECURSIVE ChunksJoined(_, _, _)
ChunksJoined(d, cs, n) ==
    IF n = 0 THEN <<>> ELSE ChunksJoined(d, cs, n - 1) \o ChunkRows(d, cs, n)

RECURSIVE ChunkSizesSum(_, _, _)
ChunkSizesSum(d, cs, n) ==
    IF n = 0 THEN 0 ELSE ChunkSizesSum(d, cs, n - 1) + Len(ChunkRows(d, cs, n))

\* C25: the batches of a non-empty input partition it: joined in the order of
\* their numbers they are the input, row for row (every row is in exactly one
\* batch, batches are contiguous and in input order), no batch is empty, none
\* is longer than the chunk size, and their sizes add up to the row count.
C25_ChunksPartition ==
    df # <<>> =>
        /\ CS >= 1 /\ NC >= 1
        /\ ChunksJoined(df, CS, NC) = df
        /\ \A i \in 1..NC :
              /\ ChunkRows(df, CS, i) # <<>>
              /\ Len(ChunkRows(df, CS, i)) <= CS
        /\ ChunkSizesSum(df, CS, NC) = Len(df)
        /\ DOMAIN chunk_state = 1..NC

\* a load of MaxRows rows in more than one batch, the last one shorter than
\* the chunk size, has inserted all its batches
C25_Witness ==
    /\ Len(df) = MaxRows /\ NC >= 2
    /\ Len(ChunkRows(df, CS, NC)) < CS
    /\ \A i \in 1..NC : chunk_state[i] = "ok"

(***************************************************************************)
(*              CLAIMS ON READ AND COERCION (SpecCoerce)                   *)
(***************************************************************************)
StoredRow(i) == {r \in stored : r.tconst = Num(10 * i)}

\* C9: after the import of a Rating file, a line whose averageRating or
\* numVotes is not a number is absent from title_ratings and every other line
\* of the file is present.
C9_RatingRejection ==
    (cz_table = "title_ratings" /\ cz_pc \in {"done", "error"}) =>
        \A i \in 1..Len(raw) :
            (StoredRow(i) # {}) <=>
                (IsNumber(raw[i].averageRating) /\ IsNumber(raw[i].numVotes))

\* The Title file of the scenario: one line with an empty startYear, another
\* line with an isAdult that is neither a number nor a missing-value marker.
TitleScenario ==
    /\ cz_table = "title_basics"
    /\ \E i, j \in 1..Len(raw) :
         /\ i # j
         /\ raw[i].startYear = T_empty
         /\ ~IsNumber(raw[j].isAdult) /\ ~IsNA(raw[j].isAdult)

\* C10: for a Title file of the scenario the coercion does not raise, every
\* line is persisted, an empty startYear is stored as null and a malformed
\* isAdult as 0.
C10_TitleScenario ==
    (TitleScenario /\ cz_pc \in {"done", "error"}) =>
        /\ cz_pc = "done"
        /\ \A i \in 1..Len(raw) :
             /\ Cardinality(StoredRow(i)) = 1
             /\ \A r \in StoredRow(i) :
                  /\ raw[i].startYear = T_empty => r.startYear = NaN
                  /\ ~IsNumber(raw[i].isAdult) => r.isAdult = Num(0)

\* The numeric columns of the table that may hold null (isAdult, averageRating
\* and numVotes are not among them).
NullableCols(tbl) ==
    CASE tbl = "title_basics"  -> {"startYear"}
      [] tbl = "name_basics"   -> {"birthYear", "deathYear"}
      [] tbl = "title_ratings" -> {}
      [] tbl = "title_episode" -> {"seasonNumber", "episodeNumber"}

\* C11: in every stored row, a nullable numeric column whose source field is
\* the null marker, empty or not a number holds null, never zero or another
\* number.
C11_NullCoercion ==
    \A i \in 1..Len(raw) : \A r \in StoredRow(i) :
        \A col \in NullableCols(cz_table) :
            ~IsNumber(raw[i][col]) => r[col] = NaN

\* A file has been loaded in which one line had a text that is no number and
\* another line a null marker in a nullable column, next to a line with a year.
C11_Witness ==
    /\ cz_pc = "done" /\ cz_table = "name_basics"
    /\ \E i, j, k \in 1..Len(raw) :
         /\ raw[i].birthYear = T_abc /\ raw[j].birthYear = T_null
         /\ raw[k].birthYear = T_1994
         /\ \E r \in StoredRow(i) : r.birthYear = NaN
         /\ \E r \in StoredRow(j) : r.birthYear = NaN
         /\ \E r \in StoredRow(k) : r.birthYear = Num(19940)

\* C12: a line that cannot be parsed as a row of the expected columns is
\* skipped and does not end the file: every other line of the file is still
\* read, coerced and offered to the loader.
C12_MalformedLineSkipped ==
    (bad_line # 0 /\ cz_pc \in {"done", "error"}) =>
        \A i \in 1..Len(raw) :
            i # bad_line => \E k \in 1..Len(frame) : frame[k].tconst = Num(10 * i)

(***************************************************************************)
(*          CLAIMS ON INDEXES, CONSTRAINTS AND THE LOAD FRAME              *)
(***************************************************************************)
\* Every load step of the run has ended.
LoadStepsEnded == pc = "load" /\ idx > Len(import_sequence)

\* C13: no index of a data table is created before all seven entity load
\* steps have completed: every step that adds an index starts in a state in
\* which the last entity's step has ended.
C13_IndexAfterLoad ==
    [][(indexes' \ indexes # {}) => LoadStepsEnded]_vars

\* The twelve indexes of section 4.4, as <<table, column>>.
RequiredIndexes ==
    {<<"title_basics", "titleType">>, <<"title_basics", "startYear">>,
     <<"title_basics", "genres">>, <<"title_basics", "primaryTitle">>,
     <<"name_basics", "primaryName">>,
     <<"title_ratings", "averageRating">>, <<"title_ratings", "numVotes">>,
     <<"title_principals", "tconst">>, <<"title_principals", "nconst">>,
     <<"title_principals", "category">>,
     <<"title_episode", "parentTconst">>, <<"title_akas", "titleId">>}

\* C14: when an import run has finished, the store has at least the twelve
\* indexes of section 4.4, also when an index statement failed and the failure
\* was swallowed.
C14_TwelveIndexes ==
    pc = "done" => RequiredIndexes \subseteq {IndexOn(n) : n \in indexes}

\* The load sequence of the importer of the run.
LoadSequence == IF Importer = "clone" THEN files_to_import ELSE import_sequence

\* C15: referential constraints are not enforced while rows are loaded: in
\* every state of the load steps enforcement is off, a file of orphan rows
\* whose step has ended is persisted, and enforcement is switched on only by
\* the finalization, after the last load step.
C15_NoEnforcementDuringLoad ==
    /\ [](/\ pc = "load" => ~foreign_keys
          /\ \A k \in 1..Len(LoadSequence) :
                (k < idx /\ file[LoadSequence[k]] = "orphans")
                   => count[LoadSequence[k]] >= FileRows)
    /\ [][(~foreign_keys /\ foreign_keys')
             => (idx > Len(LoadSequence) /\ pc \in {"load", "finalize"})]_vars

\* The standard importer has finished a run in which the file of a table that
\* declares foreign keys held orphan rows: they are stored, and enforcement is
\* on only now.
C15_Witness ==
    /\ entry = "clone" /\ pc = "done" /\ foreign_keys
    /\ \E t \in CloneForeignKey : file[t] = "orphans" /\ count[t] = FileRows

Tier(row, term) ==
    IF row.primaryTitle = term THEN 3
    ELSE IF StartsWith(row.primaryTitle, term) THEN 2
    ELSE 1

\* C17: a title search returns its rows ranked in tiers, exact match before
\* prefix match before substring match, and within a tier by vote count
\* descending, for every search query the repository serves.
C17_SearchRanking ==
    (q_kind = "search" /\ q_pc = "served") =>
        \A i, j \in 1..Len(q_result) :
            LET a == q_store[q_result[i]]
                b == q_store[q_result[j]]
                term == q_request.term
            IN  (/\ i < j
                 /\ Contains(a.primaryTitle, term)
                 /\ Contains(b.primaryTitle, term))
                  => \/ Tier(a, term) > Tier(b, term)
                     \/ /\ Tier(a, term) = Tier(b, term)
                        /\ DescKey(a.numVotes) >= DescKey(b.numVotes)

\* The row satisfies every filter the request supplies.
Satisfies(row, req) ==
    /\ req.year_min.kind # "nan" =>
         (row.startYear.kind = "num" /\ row.startYear.tenths >= req.year_min.tenths)
    /\ req.year_max.kind # "nan" =>
         (row.startYear.kind = "num" /\ row.startYear.tenths <= req.year_max.tenths)
    /\ req.genre.kind # "nan" =>
         (row.genres.kind = "str" /\ Contains(row.genres.text, req.genre.text))
    /\ req.min_rating.kind # "nan" =>
         (/\ row.rating.averageRating.kind = "num"
          /\ row.rating.averageRating.tenths >= req.min_rating.tenths)

\* C18: the movie listing returns exactly the movies that satisfy every
\* supplied filter, restricted to the requested page: no movie that fails a
\* supplied filter, and of the movies that satisfy them as many as the page
\* holds.
C18_ListingFilters ==
    (q_kind = "listing" /\ q_pc = "served") =>
        LET M == {i \in 1..Len(q_store) : Satisfies(q_store[i], q_request)}
            offset == (q_request.page - 1) * q_request.per_page
            left == IF Cardinality(M) > offset THEN Cardinality(M) - offset ELSE 0
        IN  /\ \A k \in 1..Len(q_result) : q_result[k] \in M
            /\ \A k, l \in 1..Len(q_result) : k # l => q_result[k] # q_result[l]
            /\ Len(q_result) = Min(q_request.per_page, left)

(***************************************************************************)
(*               CLAIMS ON THE QUERY CACHE (SpecCache)                     *)
(***************************************************************************)
\* C19: a cache lookup never returns a result computed for a different pair of
\* query text and parameters: the entry a lookup returns was stored by a call
\* with the same query text, executed with the same parameters.
C19_CacheKeying ==
    last_hit.hit =>
        /\ last_hit.origin_query = last_hit.query
        /\ Bound(last_hit.origin_params) = Bound(last_hit.params)

\* C20: the number of cached entries never exceeds cache_size, for the cache
\* of optimized_database.py and for the cache of app.py.
C20_BoundedCache == Len(query_cache) <= cache_size

\* a step in which thread t returns from the second half of execute_query of
\* optimized_database.py
Returns(t) ==
    k_manager = "optimized_database" /\ in_flight[t].active /\ ~in_flight'[t].active

\* C29: a call of execute_query of optimized_database.py that hits an error
\* returns an empty list and leaves the cache as it was (no entry added, none
\* evicted), so that a later identical call finds no entry of the failed call
\* and queries the store again; a call with use_cache=False is never answered
\* from the cache and leaves the cache as it was.
C29_FailedQueryLeavesCache ==
    /\ [](last_hit.hit => last_hit.use_cache)
    /\ [][\A t \in Threads :
            Returns(t) =>
              /\ last_call'.raised =>
                    last_call'.returned = "[]" /\ query_cache' = query_cache
              /\ ~in_flight[t].use_cache => query_cache' = query_cache]_vars

\* a failed call with use_cache=True has returned while the cache holds the
\* entry of another call
C29_Witness ==
    /\ k_manager = "optimized_database"
    /\ last_call.done /\ last_call.raised /\ last_call.returned = "[]"
    /\ Len(query_cache) = 1
    /\ \E t \in Threads : in_flight[t].active /\ ~in_flight[t].use_cache

(***************************************************************************)
(*                  CLAIMS ON THE DATABASE RESET (SpecReset)               *)
(***************************************************************************)
\* the answers 'yes' and 'y' in any letter case
SaysYes(answer) ==
    \/ Len(answer) = 1 /\ answer[1] \in {"y", "Y"}
    \/ /\ Len(answer) = 3
       /\ answer[1] \in {"y", "Y"}
       /\ answer[2] \in {"e", "E"}
       /\ answer[3] \in {"s", "S"}

\* C21: reset_database runs exactly when the answer to the prompt is 'yes' or
\* 'y' in any letter case; for every other answer os.remove is never called
\* and no file changes.  When it runs, every database file that exists is
\* handed to os.remove, whatever happened to the files before it: at the end a
\* file still exists only if its own removal raised.
C21_ConfirmedReset ==
    /\ [](r_pc # "prompt" => (r_pc \in {"loop", "done"} <=> SaysYes(confirm)))
    /\ [](~SaysYes(confirm) => remove_called = {} /\ deleted_count = 0)
    /\ [][file_exists' # file_exists => SaysYes(confirm)]_vars
    /\ [](r_pc = "done" =>
            \A f \in Range(db_files) :
                file_exists[f] => f \in remove_called /\ remove_raises[f])

\* an upper-case YES was given, the removal of imdb.db raised and the later
\* imdb.db-wal was deleted all the same
C21_Witness ==
    /\ confirm = A_YES /\ r_pc = "done"
    /\ file_exists["imdb.db"] /\ "imdb.db" \in remove_called
    /\ ~file_exists["imdb.db-wal"] /\ "imdb.db-wal" \in remove_called
    /\ deleted_count = 1

(***************************************************************************)
(*                   CLAIMS ON THE TITLE LOOKUP (SpecDetails)              *)
(***************************************************************************)
\* C22: a lookup whose query met no store failure answers 'not found' (404,
\* or flash and redirect) when the tconst is not in the store, and answers
\* with the row of that tconst when it is in the store.
C22_TitleLookup ==
    d_response.outcome # "none" /\ ~d_response.raised =>
        IF d_response.present
          THEN d_response.outcome = "details"
               /\ d_response.row = d_response.tconst
          ELSE d_response.outcome \in {"not found 404",
                                       "not found flash, redirect"}

\* the result execute_query of the application's database manager returns now
\* for the lookup of tconst, the store being reachable
ResultNow(tconst) ==
    CASE d_app = "optimized_app" ->
           OptimizedExecuteQuery(d_cache, d_titles, tconst, FALSE).result
      [] d_app = "app" ->
           AppExecuteQuery(d_cache, d_titles, tconst, FALSE).result
      [] OTHER ->
           SimpleExecuteQuery(d_titles, tconst, FALSE).result

\* C28: a result returned by execute_query reflects the current content of
\* the store: at any time, also after a write to the store that no
\* clear_cache has followed, the result of the lookup of a tconst is what the
\* query yields on the store as it is now.
C28_ResultsReflectStore ==
    \A tconst \in TitleIds : ResultNow(tconst) = MOVIE_DETAILS(d_titles, tconst)

(***************************************************************************)
(*        CLAIMS ON INTERRUPTED AND REPEATED SETUP (SpecInterrupt)         *)
(***************************************************************************)
\* the files import_data finds, in the order of its loop
FilesFound == SelectSeq(files_to_import, LAMBDA t : file[t] # "absent")

C23_WitnessEmptyTitle ==
    /\ entry = "clone" /\ run = 2 /\ pc = "done"
    /\ count0["title_basics"] = 0 /\ count0["name_basics"] > 0
    /\ count["name_basics"] >= count0["name_basics"]

(***************************************************************************)
(*               CLAIMS ON THE WORKER POOLS (SpecPool)                     *)
(***************************************************************************)
\* the tables that have an insert pending or running
TablesInFlight ==
    {t \in Tables : \E i \in ChunkIds : t_task[t][i] \in InFlight}

\* C24: entity loads never overlap in TurboDataImporter: at no time are
\* chunk inserts of two different tables pending or running, only inserts of
\* the table of the current loop iteration are, parallel_insert is left only
\* in a state in which every insert it submitted has ended, and while indexes
\* are created and afterwards no insert is pending or running.
C24_NoOverlap ==
    /\ [](Cardinality(TablesInFlight) <= 1)
    /\ [](\A t \in TablesInFlight :
              t_pc \in {"wait", "exit"} /\ t = import_sequence[t_idx])
    /\ [][(t_pc \in {"wait", "exit"} /\ t_pc' \notin {"wait", "exit"})
            => \A i \in ChunkIds :
                  t_task[import_sequence[t_idx]][i] \notin InFlight]_vars
    /\ [](t_pc \in {"index", "done", "aborted"} => TablesInFlight = {})

\* the future of the first chunk raised while the second chunk was still
\* running: the main thread is in the exit of the with block
C24_Witness ==
    /\ t_pc = "exit"
    /\ \E t \in Tables :
         t_task[t][1] = "raised" /\ t_task[t][2] = "running"

(***************************************************************************)
(*     CLAIMS ON THE CONNECTION POOL AND THE BATCH INSERT (SpecConn)       *)
(***************************************************************************)
\* C26: the pool never holds more than max_connections connections, no
\* connection is held by two threads at a time, and every operation a thread
\* makes on a connection variable finds a connection the thread holds: not
\* one it has returned to the pool, that another thread holds or that was
\* closed, and not an unbound variable.
C26_PoolDiscipline ==
    /\ Len(connection_pool) <= max_connections
    /\ \A c \in ConnIds : Cardinality({t \in PoolThreads : Holds(t, c)}) <= 1
    /\ p_op.state \in {"none", "held"}

\* the rows of an ended call
RowsOf(d) ==
    {[thread |-> d.thread, call |-> d.call, batch |-> b] : b \in Batches}

\* C27: execute_batch_insert is all-or-nothing: of a call that has ended with
\* an exception in one of its statements no row is in the store, of a call
\* that has ended without one every row is.
C27_AllOrNothing ==
    \A d \in p_done :
        IF d.failed THEN RowsOf(d) \cap p_committed = {}
                    ELSE RowsOf(d) \subseteq p_committed

(***************************************************************************)
(*          CLAIMS ON THE PAGINATION OF THE LISTINGS (SpecPages)           *)
(***************************************************************************)
\* the least n with n * per_page >= total
Ceiling(total, per_page) ==
    CHOOSE n \in 0..total : n * per_page >= total /\ \A k \in 0..(n - 1) : k * per_page < total

\* the positions, of total rows, that the page shows
RowsOnPage(total, per_page, page) ==
    {k \in 1..total : (page - 1) * per_page < k /\ k <= page * per_page}

\* the arithmetic of a rendered listing for page >= 1 and per_page > 0
PaginationArithmetic ==
    LET page     == pagination.page
        per_page == pagination.per_page
        total    == m_request.total_count
    IN  (pagination.outcome = "rendered" /\ page >= 1 /\ per_page > 0) =>
          /\ pagination.offset = (page - 1) * per_page
          /\ m_request.route # "simple_app" =>
                pagination.total_pages = Ceiling(total, per_page)
          /\ pagination.flags =>
                /\ pagination.has_prev <=> page > 1
                /\ pagination.has_next <=>
                      RowsOnPage(total, per_page, page + 1) # {}
                /\ (page < Ceiling(total, per_page)) <=> (page * per_page < total)

\* the offset handed to the query is never negative
OffsetNonNegative ==
    pagination.outcome = "rendered" => pagination.offset >= 0

\* C30: for every page >= 1, page size > 0 and total >= 0 the listing routes
\* compute offset = (page - 1) * page size, total_pages = ceiling(total / page
\* size), has_prev iff page > 1 and has_next iff the following page holds a
\* row, the two formulas of has_next agreeing; and for a page below 1 the
\* computed offset is still not negative.
C30_Pagination == PaginationArithmetic /\ OffsetNonNegative

=============================================================================
